---------------------------- MODULE Spec2Model ----------------------------
(***************************************************************************)
(* A model of the templator library: the template data model (models.py),  *)
(* the circle lattice synthesizer and the unit conversions (geometry.py),  *)
(* the row clustering and the vector detector                              *)
(* (pdf_extract.py), the raster detector (image_extract.py), the top-level *)
(* extract_template (__init__.py) and the batch job runner                 *)
(* (job_runner.py).                                                        *)
(*                                                                         *)
(* Numbers.  The library computes with Python floats.  The model computes  *)
(* with exact numbers of the field Q(sqrt 3): a number is a triple         *)
(* <<a, b, d>> standing for (a + b*sqrt(3)) / d, kept in lowest terms with *)
(* d > 0, so that equal values have equal representations.  Rationals have *)
(* b = 0.  sqrt(3) enters only through the close-packed pitch.             *)
(*                                                                         *)
(* Epsilon.  geometry._EPSILON = 1e-9 absorbs floating point error.  All   *)
(* inputs of the model lie on a coarse grid (integers and their halves,    *)
(* means and medians of a few of them), on which two values are either     *)
(* equal or differ by far more than 1e-9.  On such values                  *)
(*     a >  b + eps  is  a >  b,      a <  b - eps  is  a <  b,            *)
(*     a <= b + eps  is  a <= b,      floor((a + eps) / p) is floor(a / p) *)
(* and this is how the operators GtEps, LtMinusEps, LeEps and FloorDivEps  *)
(* below compute.                                                          *)
(***************************************************************************)
EXTENDS Integers, Sequences, FiniteSets, TLC

VARIABLES
    op,       \* the operation invoked: "idle" before any call
    args,     \* the arguments of the call
    result,   \* what the call produced: a template, None or a raised error
    pc,       \* position of the top-level extract_template call
    queue,    \* backends the top-level call has still to attempt
    ran,      \* backends the top-level call has run, in order
    results,  \* JobRunner: the results gathered so far
    pending,  \* JobRunner._run_concurrent: the futures submitted and not yet collected
    calls,    \* the output paths render_to_pdf was called with, in order
    executed, \* the indexes of the jobs _execute_job has run, in order
    idx,      \* JobRunner: the index of the next job of the loop (from 1)
    stop_scheduling   \* JobRunner._run_concurrent: no further job is submitted

\* the variables of a JobRunner.run call
batch == <<results, pending, calls, executed, idx, stop_scheduling>>

vars == <<op, args, result, pc, queue, ran, batch>>

-----------------------------------------------------------------------------
(* Exact arithmetic *)

Abs(i) == IF i < 0 THEN -i ELSE i

RECURSIVE GCD(_, _)
GCD(m, n) == IF n = 0 THEN m ELSE GCD(n, m % n)

NumDiv(a, b, d, g) == <<a \div g, b \div g, d \div g>>

\* (a + b*sqrt(3)) / d in lowest terms, for d > 0
NumNorm(a, b, d) == NumDiv(a, b, d, GCD(GCD(Abs(a), Abs(b)), d))

N(i) == <<i, 0, 1>>
Zero == <<0, 0, 1>>

NAdd(x, y) == NumNorm(x[1] * y[3] + y[1] * x[3], x[2] * y[3] + y[2] * x[3], x[3] * y[3])
NSub(x, y) == NumNorm(x[1] * y[3] - y[1] * x[3], x[2] * y[3] - y[2] * x[3], x[3] * y[3])
NMul(x, y) == NumNorm(x[1] * y[1] + 3 * x[2] * y[2], x[1] * y[2] + x[2] * y[1], x[3] * y[3])
NTimes(x, k) == NumNorm(x[1] * k, x[2] * k, x[3])
NOver(x, k) == NumNorm(x[1], x[2], x[3] * k)

\* The sign of a + b*sqrt(3): by squaring when a and b pull apart.
NSign(x) ==
    IF x[1] = 0 /\ x[2] = 0 THEN 0
    ELSE IF x[1] >= 0 /\ x[2] >= 0 THEN 1
    ELSE IF x[1] <= 0 /\ x[2] <= 0 THEN -1
    ELSE IF x[1] > 0 THEN (IF x[1] * x[1] > 3 * x[2] * x[2] THEN 1 ELSE -1)
    ELSE (IF 3 * x[2] * x[2] > x[1] * x[1] THEN 1 ELSE -1)

NLt(x, y) == NSign(NSub(x, y)) < 0
NLe(x, y) == NSign(NSub(x, y)) <= 0

\* floor(x / p) for rationals x and p > 0
NFloorDiv(x, p) == (x[1] * p[3]) \div (x[3] * p[1])

GtEps(a, b) == NLt(b, a)            \* a > b + _EPSILON
LtMinusEps(a, b) == NLt(a, b)       \* a < b - _EPSILON
LeEps(a, b) == NLe(a, b)            \* a <= b + _EPSILON
FloorDivEps(a, p) == NFloorDiv(a, p) \* floor((a + _EPSILON) / p)

\* math.sqrt(3.0) * x / 2.0 for a rational x
Sqrt3Half(x) == NumNorm(0, x[1], 2 * x[3])

Square(x) == NMul(x, x)

\* (x2 - x1)^2 + (y2 - y1)^2, the square of math.hypot
DistSq(p, q) == NAdd(Square(NSub(q[1], p[1])), Square(NSub(q[2], p[2])))

-----------------------------------------------------------------------------
(* Sequences *)

RECURSIVE SumSeq(_)
SumSeq(s) == IF s = <<>> THEN 0 ELSE s[1] + SumSeq(Tail(s))

RECURSIVE NSum(_)
NSum(s) == IF s = <<>> THEN Zero ELSE NAdd(s[1], NSum(Tail(s)))

MaxOf(s) == CHOOSE m \in {s[i] : i \in DOMAIN s} : \A k \in DOMAIN s : s[k] <= m

\* A key is a sequence of numbers; keys compare lexicographically.
RECURSIVE KeyLt(_, _)
KeyLt(k1, k2) ==
    IF k1 = <<>> THEN FALSE
    ELSE IF k1[1] = k2[1] THEN KeyLt(Tail(k1), Tail(k2))
    ELSE NLt(k1[1], k2[1])

\* The place of index i among the indices 1..n sorted by key: after every
\* index whose key is smaller and every earlier index whose key is equal.
Rank(keys, i) ==
    1 + Cardinality({j \in DOMAIN keys :
                        IF keys[j] = keys[i] THEN j < i ELSE KeyLt(keys[j], keys[i])})

InversePerm(rank) == SubSeq([r \in DOMAIN rank |-> CHOOSE i \in DOMAIN rank : rank[i] = r],
                            1, Len(rank))

\* Python's sorted(), a stable sort: the order of the indices of keys in the
\* sorted sequence.  (SubSeq makes a function a tuple, computed once.)
SortIdx(keys) == InversePerm(SubSeq([i \in DOMAIN keys |-> Rank(keys, i)], 1, Len(keys)))

Permuted(s, ix) == SubSeq([i \in DOMAIN s |-> s[ix[i]]], 1, Len(s))

SortedBy(s, keys) == Permuted(s, SortIdx(keys))

MedianOfSorted(srt) ==
    IF Len(srt) % 2 = 1 THEN srt[(Len(srt) + 1) \div 2]
    ELSE NOver(NAdd(srt[Len(srt) \div 2], srt[Len(srt) \div 2 + 1]), 2)

\* statistics.median / numpy.median: the middle value, or the mean of the
\* two middle values.
Median(values) == MedianOfSorted(SortedBy(values, [i \in DOMAIN values |-> <<values[i]>>]))

\* statistics.mean / numpy.mean
Mean(values) == NOver(NSum(values), Len(values))

-----------------------------------------------------------------------------
(* models.py: the template data model *)

None == [some |-> FALSE, val |-> 0]
Some(v) == [some |-> TRUE, val |-> v]

\* PageMetrics.__post_init__
PageMetricsValid(page) == NSign(page.width_pt) > 0 /\ NSign(page.height_pt) > 0

\* GridMetrics.__post_init__.  columns_per_row is None or a tuple.
GridMetricsValid(grid) ==
    /\ grid.rows > 0 /\ grid.columns > 0
    /\ NSign(grid.delta_x_pt) > 0 /\ NSign(grid.delta_y_pt) > 0
    /\ (grid.row_offsets_pt # <<>> => Len(grid.row_offsets_pt) = grid.rows)
    /\ (grid.columns_per_row.some =>
            /\ Len(grid.columns_per_row.val) = grid.rows
            /\ \A i \in DOMAIN grid.columns_per_row.val : grid.columns_per_row.val[i] > 0)

\* LabelGeometry.__post_init__ (equal values differ by 0 <= 1e-6)
LabelGeometryValid(label) ==
    /\ NSign(label.width_pt) > 0 /\ NSign(label.height_pt) > 0
    /\ (label.shape = "circle" => label.width_pt = label.height_pt)

\* The template field of a result that carries no template.
NullTemplate ==
    [page |-> [width_pt |-> Zero, height_pt |-> Zero],
     grid |-> [kind |-> "rectangular", rows |-> 0, columns |-> 0, delta_x_pt |-> Zero,
               delta_y_pt |-> Zero, row_offsets_pt |-> <<>>, columns_per_row |-> None],
     label |-> [shape |-> "rectangle", width_pt |-> Zero, height_pt |-> Zero],
     anchors |-> [top_left_pt |-> <<Zero, Zero>>, bottom_left_pt |-> <<Zero, Zero>>],
     centers_pt |-> <<>>,
     metadata |-> [layout |-> ""]]

Returned(t) == [status |-> "template", error |-> "", template |-> t]
ReturnedNone == [status |-> "none", error |-> "", template |-> NullTemplate]
Raised(e) == [status |-> "error", error |-> e, template |-> NullTemplate]

\* A mis-sort: points left in the order given.
ensure_row_major_unsorted(points) == points

\* geometry.ensure_row_major: sorted(points, key=(y, x))
ensure_row_major(points) ==
    SortedBy(points, [i \in DOMAIN points |-> <<points[i][2], points[i][1]>>])

\* ExtractedTemplate(...): __post_init__ rejects an empty centre sequence
\* and stores the centres row-major.
ExtractedTemplate(page, grid, label, anchors, centers, metadata) ==
    IF centers = <<>> THEN Raised("ValueError")
    ELSE Returned([page |-> page, grid |-> grid, label |-> label, anchors |-> anchors,
                   centers_pt |-> ensure_row_major(centers), metadata |-> metadata])

-----------------------------------------------------------------------------
(* geometry.py: the circle lattice synthesizer *)

\* str.lower() on the layout names the model passes
Lower(s) ==
    CASE s = "Simple" -> "simple"
      [] s = "CLOSE" -> "close"
      [] OTHER -> s

\* The gap left out of the pitch.
PitchXNoGap(diameter_pt, gap_pt) == diameter_pt

\* pitch_x = diameter_pt + gap_pt
PitchX(diameter_pt, gap_pt) == NAdd(diameter_pt, gap_pt)

NoLattice == [ok |-> FALSE, pitch_x_pt |-> Zero, pitch_y_pt |-> Zero, row_offset_pt |-> Zero]

\* CircleLattice(pitch_x_pt, pitch_y_pt, row_offset_pt) for the two layouts
LatticeOf(layout_key, pitch_x) ==
    IF layout_key = "simple"
        THEN [ok |-> TRUE, pitch_x_pt |-> pitch_x, pitch_y_pt |-> pitch_x, row_offset_pt |-> Zero]
    ELSE IF layout_key = "close"
        THEN [ok |-> TRUE, pitch_x_pt |-> pitch_x, pitch_y_pt |-> Sqrt3Half(pitch_x),
              row_offset_pt |-> NOver(pitch_x, 2)]
    ELSE NoLattice

\* _circle_lattice_parameters: ok = FALSE stands for a raised ValueError
CircleLatticeParameters(layout_key, diameter_pt, gap_pt) ==
    IF NSign(diameter_pt) <= 0 \/ NSign(gap_pt) < 0 THEN NoLattice
    ELSE LatticeOf(layout_key, PitchX(diameter_pt, gap_pt))

\* Margins read in the order (top, left, bottom, right).
UnpackMarginsSwapped(margin_pt) ==
    [top |-> margin_pt[1], right |-> margin_pt[4], bottom |-> margin_pt[3], left |-> margin_pt[2]]

\* top, right, bottom, left = margin_pt
UnpackMargins(margin_pt) ==
    [top |-> margin_pt[1], right |-> margin_pt[2], bottom |-> margin_pt[3], left |-> margin_pt[4]]

\* Only the length of the margins checked.
MarginsValidLength(margin_pt) == Len(margin_pt) = 4

\* _validate_margins
MarginsValid(margin_pt) ==
    /\ Len(margin_pt) = 4
    /\ \A i \in DOMAIN margin_pt : NSign(margin_pt[i]) >= 0

\* _usable_extent does not raise
UsableExtentOK(page, margin_a, margin_b, diameter_pt) ==
    ~LtMinusEps(NSub(NSub(page, margin_a), margin_b), diameter_pt)

Min(a, b) == IF a < b THEN a ELSE b

\* An off-by-one: the column at x_start itself is not counted.
RawColumnsNoFirst(available_x, pitch_x) == FloorDivEps(available_x, pitch_x)

\* raw_columns = int(math.floor((available_x + _EPSILON) / pitch_x)) + 1
RawColumns(available_x, pitch_x) == FloorDivEps(available_x, pitch_x) + 1

\* The cap on the columns ignored.
CappedColumnsNever(raw_columns, max_cols) == raw_columns

\* if max_cols is not None: raw_columns = min(raw_columns, max_cols)
CappedColumns(raw_columns, max_cols) ==
    IF max_cols.some THEN Min(raw_columns, max_cols.val) ELSE raw_columns

\* offset of a row: row_offset_pt on the odd rows of the close layout
RowOffset(c, attempted_row) ==
    IF c.layout_key = "close" /\ attempted_row % 2 = 1 THEN c.lattice.row_offset_pt ELSE Zero

\* the row appended: row_offsets, columns_per_row and the centres of the row
AppendRow(c, acc, y, offset, x_start, raw_columns) ==
    [centres |-> acc.centres \o
                   [k \in 1..raw_columns |->
                       <<NAdd(x_start, NTimes(c.lattice.pitch_x_pt, k - 1)), y>>],
     row_offsets |-> Append(acc.row_offsets, offset),
     columns_per_row |-> Append(acc.columns_per_row, raw_columns)]

RECURSIVE WalkRows(_, _, _, _)

\* the end of the loop body: added_rows += 1, attempted_row += 1, the max_rows break
WalkRowAdded(c, attempted_row, added_rows, acc2) ==
    IF c.max_rows.some /\ added_rows + 1 >= c.max_rows.val THEN acc2
    ELSE WalkRows(c, attempted_row + 1, added_rows + 1, acc2)

\* the loop body from `if raw_columns <= 0` on
WalkRowColumns(c, attempted_row, added_rows, acc, y, offset, x_start, raw_columns) ==
    IF raw_columns <= 0 THEN WalkRows(c, attempted_row + 1, added_rows, acc)
    ELSE WalkRowAdded(c, attempted_row, added_rows,
                      AppendRow(c, acc, y, offset, x_start, raw_columns))

\* the loop body of _generate_circle_centres for the row at y
WalkRowAt(c, attempted_row, added_rows, acc, y, offset, x_start) ==
    IF GtEps(y, c.max_y) THEN acc
    ELSE IF GtEps(x_start, c.max_x) THEN WalkRows(c, attempted_row + 1, added_rows, acc)
    ELSE IF LtMinusEps(NSub(c.max_x, x_start), Zero)
        THEN WalkRows(c, attempted_row + 1, added_rows, acc)
    ELSE WalkRowColumns(c, attempted_row, added_rows, acc, y, offset, x_start,
            CappedColumns(RawColumns(NSub(c.max_x, x_start), c.lattice.pitch_x_pt), c.max_cols))

\* The `while True` loop of _generate_circle_centres, from row attempted_row on.
WalkRows(c, attempted_row, added_rows, acc) ==
    WalkRowAt(c, attempted_row, added_rows, acc,
              NAdd(c.start_y, NTimes(c.lattice.pitch_y_pt, attempted_row)),
              RowOffset(c, attempted_row),
              NAdd(c.start_x_base, RowOffset(c, attempted_row)))

GenerateFailed == [ok |-> FALSE, centres |-> <<>>, row_offsets |-> <<>>, columns_per_row |-> <<>>]

\* if not centres: raise ValueError; return centres, row_offsets, columns_per_row
GenerateResult(w) ==
    IF w.centres = <<>> THEN GenerateFailed
    ELSE [ok |-> TRUE, centres |-> w.centres, row_offsets |-> w.row_offsets,
          columns_per_row |-> w.columns_per_row]

\* _generate_circle_centres after the lattice and the margins are known
GenerateWith(a, layout_key, lattice, m, radius) ==
    IF ~lattice.ok THEN GenerateFailed
    ELSE IF ~MarginsValid(a.margin_pt) THEN GenerateFailed
    ELSE IF NSign(a.page_w_pt) <= 0 \/ NSign(a.page_h_pt) <= 0 THEN GenerateFailed
    ELSE IF a.max_cols.some /\ a.max_cols.val <= 0 THEN GenerateFailed
    ELSE IF a.max_rows.some /\ a.max_rows.val <= 0 THEN GenerateFailed
    ELSE IF ~UsableExtentOK(a.page_w_pt, m.left, m.right, a.diameter_pt) THEN GenerateFailed
    ELSE IF ~UsableExtentOK(a.page_h_pt, m.top, m.bottom, a.diameter_pt) THEN GenerateFailed
    ELSE GenerateResult(WalkRows(
            [layout_key |-> layout_key, lattice |-> lattice,
             max_x |-> NSub(NSub(a.page_w_pt, m.right), radius),
             start_x_base |-> NAdd(m.left, radius),
             max_y |-> NSub(NSub(a.page_h_pt, m.bottom), radius),
             start_y |-> NAdd(m.top, radius),
             max_cols |-> a.max_cols, max_rows |-> a.max_rows],
            0, 0, [centres |-> <<>>, row_offsets |-> <<>>, columns_per_row |-> <<>>]))

\* _generate_circle_centres: ok = FALSE stands for a raised ValueError
GenerateCircleCentres(a) ==
    GenerateWith(a, Lower(a.layout),
                 CircleLatticeParameters(Lower(a.layout), a.diameter_pt, a.gap_pt),
                 UnpackMargins(a.margin_pt), NOver(a.diameter_pt, 2))

\* _grid_metadata
GridMetadata(layout_key, lattice, columns_per_row, row_offsets) ==
    [kind |-> IF layout_key = "simple" THEN "circle_simple"
              ELSE IF layout_key = "close" THEN "circle_close" ELSE "rectangular",
     rows |-> Len(columns_per_row),
     columns |-> MaxOf(columns_per_row),
     delta_x_pt |-> lattice.pitch_x_pt,
     delta_y_pt |-> lattice.pitch_y_pt,
     row_offsets_pt |-> row_offsets,
     columns_per_row |->
        IF \A i \in DOMAIN columns_per_row : \A j \in DOMAIN columns_per_row :
                columns_per_row[i] = columns_per_row[j]
        THEN None ELSE Some(columns_per_row)]

\* the bounds and the distance _validate_circle_constraints checks
ConstraintsHold(centres, lo_x, hi_x, lo_y, hi_y, diameter_pt) ==
    /\ \A i \in DOMAIN centres :
          /\ ~LtMinusEps(centres[i][1], lo_x) /\ LeEps(centres[i][1], hi_x)
          /\ ~LtMinusEps(centres[i][2], lo_y) /\ LeEps(centres[i][2], hi_y)
    /\ \A i \in DOMAIN centres : \A j \in (i + 1)..Len(centres) :
          ~LtMinusEps(DistSq(centres[i], centres[j]), Square(diameter_pt))

CircleBounds(template, m, radius) ==
    ConstraintsHold(template.centers_pt,
                    NAdd(m.left, radius),
                    NSub(NSub(template.page.width_pt, m.right), radius),
                    NAdd(m.top, radius),
                    NSub(NSub(template.page.height_pt, m.bottom), radius),
                    template.label.width_pt)

\* _validate_circle_constraints does not raise
CircleConstraintsOK(template, margin_pt) ==
    CircleBounds(template, UnpackMargins(margin_pt), NOver(template.label.width_pt, 2))

\* synthesize_circles: _validate_circle_constraints(template, margin_pt); return template
SynthValidated(a, built) ==
    IF built.status # "template" THEN built
    ELSE IF ~CircleConstraintsOK(built.template, a.margin_pt) THEN Raised("ValueError")
    ELSE built

\* synthesize_circles: the anchors, the page, the label and the template
SynthBuilt(a, layout_key, gen, grid, page, label) ==
    IF ~GridMetricsValid(grid) THEN Raised("ValueError")
    ELSE IF ~PageMetricsValid(page) THEN Raised("ValueError")
    ELSE IF ~LabelGeometryValid(label) THEN Raised("ValueError")
    ELSE SynthValidated(a,
            ExtractedTemplate(page, grid, label,
                [top_left_pt |-> gen.centres[1],
                 bottom_left_pt |-> gen.centres[
                     SumSeq(SubSeq(gen.columns_per_row, 1, Len(gen.columns_per_row) - 1)) + 1]],
                gen.centres,
                [layout |-> layout_key, gap_pt |-> a.gap_pt]))

\* synthesize_circles once the lattice and the centres are computed
SynthWith(a, layout_key, lattice, gen) ==
    IF ~lattice.ok THEN Raised("ValueError")
    ELSE IF ~gen.ok THEN Raised("ValueError")
    ELSE SynthBuilt(a, layout_key, gen,
                    GridMetadata(layout_key, lattice, gen.columns_per_row, gen.row_offsets),
                    [width_pt |-> a.page_w_pt, height_pt |-> a.page_h_pt],
                    [shape |-> "circle", width_pt |-> a.diameter_pt, height_pt |-> a.diameter_pt])

\* synthesize_circles
SynthesizeCircles(a) ==
    SynthWith(a, Lower(a.layout),
              CircleLatticeParameters(Lower(a.layout), a.diameter_pt, a.gap_pt),
              GenerateCircleCentres(a))

-----------------------------------------------------------------------------
(* Grid inference in pdf_extract.py and image_extract.py *)

\* a function over 1..n as a tuple
Tup(f, n) == SubSeq(f, 1, n)

Rat(n, d) == NumNorm(n, 0, d)
NNeg(x) == <<-x[1], -x[2], x[3]>>
NAbs(x) == IF NSign(x) < 0 THEN NNeg(x) ELSE x
NMax(a, b) == IF NLt(a, b) THEN b ELSE a

Widths(rects) == Tup([i \in DOMAIN rects |-> rects[i].width], Len(rects))
Heights(rects) == Tup([i \in DOMAIN rects |-> rects[i].height], Len(rects))
Radii(rects) == Tup([i \in DOMAIN rects |-> rects[i].radius], Len(rects))
Centers(rects) == Tup([i \in DOMAIN rects |-> rects[i].center], Len(rects))
CenterXs(rects) == Tup([i \in DOMAIN rects |-> rects[i].center[1]], Len(rects))
CenterYs(rects) == Tup([i \in DOMAIN rects |-> rects[i].center[2]], Len(rects))

\* statistics.mean(r.center[1] for r in row)
RowMeanY(row) == Mean(CenterYs(row))

\* the first row whose mean y is within the tolerance of y, 0 when there is none
RECURSIVE FirstRowWithin(_, _, _, _)
FirstRowWithin(rows, k, y, row_tolerance) ==
    IF k > Len(rows) THEN 0
    ELSE IF NLe(NAbs(NSub(y, RowMeanY(rows[k]))), row_tolerance) THEN k
    ELSE FirstRowWithin(rows, k + 1, y, row_tolerance)

\* row.append(rect) on the row found, rows.append([rect]) when not placed
PlaceAt(rows, rect, k) ==
    IF k = 0 THEN Append(rows, <<rect>>) ELSE [rows EXCEPT ![k] = Append(@, rect)]

\* the loop `for rect in sorted_rects` of _cluster_rows
RECURSIVE PlaceAll(_, _, _)
PlaceAll(sorted_rects, rows, row_tolerance) ==
    IF sorted_rects = <<>> THEN rows
    ELSE PlaceAll(Tail(sorted_rects),
                  PlaceAt(rows, Head(sorted_rects),
                          FirstRowWithin(rows, 1, Head(sorted_rects).center[2], row_tolerance)),
                  row_tolerance)

\* row.sort(key=lambda rect: rect.center[0]) for every row
SortRowsByX(rows) ==
    Tup([i \in DOMAIN rows |->
            SortedBy(rows[i], [j \in DOMAIN rows[i] |-> <<rows[i][j].center[1]>>])], Len(rows))

\* rows.sort(key=mean of the centre ys)
SortRowsByMeanY(rows) ==
    SortedBy(rows, Tup([i \in DOMAIN rows |-> <<RowMeanY(rows[i])>>], Len(rows)))

\* The candidates taken in the order given.
SortedRectsAsGiven(rectangles) == rectangles

\* sorted_rects = sorted(rectangles, key=lambda rect: rect.center[1])
SortedRects(rectangles) ==
    SortedBy(rectangles, [i \in DOMAIN rectangles |-> <<rectangles[i].center[2]>>])

\* _cluster_rows with row_tolerance = max(median_height * fraction, floor)
ClusterRows(rectangles, fraction, floor) ==
    IF rectangles = <<>> THEN <<>>
    ELSE SortRowsByMeanY(SortRowsByX(PlaceAll(
            SortedRects(rectangles),
            <<>>,
            NMax(NMul(Median(Heights(rectangles)), fraction), floor))))

\* _flatten_rows
RECURSIVE FlattenRows(_)
\* The vector detector clustering with the tolerance of the raster detector.
VectorClusterRowsLoose(rectangles) == ClusterRows(rectangles, Rat(3, 10), Rat(3, 4))

\* pdf_extract._cluster_rows: row_tolerance = max(median_height * 0.25, 0.5)
VectorClusterRows(rectangles) == ClusterRows(rectangles, Rat(1, 4), Rat(1, 2))

\* image_extract._cluster_rows: row_tolerance = max(median_height * 0.3, 0.75)
RasterClusterRows(rectangles) == ClusterRows(rectangles, Rat(3, 10), Rat(3, 4))

\* the rows, as the result of a call of _cluster_rows
Clustered(rows) == [status |-> "rows", error |-> "", template |-> NullTemplate, rows |-> rows]

FlattenRows(rows) == IF rows = <<>> THEN <<>> ELSE Head(rows) \o FlattenRows(Tail(rows))

\* s[idx] - s[idx - 1] for idx in range(1, len(s))
Diffs(s) ==
    IF Len(s) < 2 THEN <<>>
    ELSE Tup([i \in 1..(Len(s) - 1) |-> NSub(s[i + 1], s[i])], Len(s) - 1)

\* row_centers
RowCenters(rows) == Tup([i \in DOMAIN rows |-> RowMeanY(rows[i])], Len(rows))

\* column_counts
ColumnCounts(rows) == Tup([i \in DOMAIN rows |-> Len(rows[i])], Len(rows))

\* delta_x_values: the differences of consecutive centre xs, row by row
RECURSIVE RowDeltas(_)
RowDeltas(rows) ==
    IF rows = <<>> THEN <<>> ELSE Diffs(CenterXs(Head(rows))) \o RowDeltas(Tail(rows))

\* The fallback taken whether or not there are values.
MedianOrDefault(values, default) == default

\* _median(values) if values else default
MedianOr(values, default) == IF values = <<>> THEN default ELSE Median(values)

\* PageMetrics(...), GridMetrics(...), LabelGeometry(...), ExtractedTemplate(...):
\* any __post_init__ may raise ValueError
Construct(page, grid, label, anchors, centers, metadata) ==
    IF ~PageMetricsValid(page) THEN Raised("ValueError")
    ELSE IF ~GridMetricsValid(grid) THEN Raised("ValueError")
    ELSE IF ~LabelGeometryValid(label) THEN Raised("ValueError")
    ELSE ExtractedTemplate(page, grid, label, anchors, centers, metadata)

-----------------------------------------------------------------------------
(* pdf_extract.py: the vector detector *)

\* A drawing is [rect, items]: rect is None or Some(<<x0, y0, x1, y1>>), an
\* item is [op, points].
RectWidth(rect) == NSub(rect[3], rect[1])
RectHeight(rect) == NSub(rect[4], rect[2])

\* the points of the straight segments ("l", "L") of a path
RECURSIVE SegmentPoints(_)
SegmentPoints(items) ==
    IF items = <<>> THEN <<>>
    ELSE (IF Head(items).op \in {"l", "L"} THEN Head(items).points ELSE <<>>)
            \o SegmentPoints(Tail(items))

\* if 1e-6 < d < limit: candidates.append(d)   (limit = extent / 2 + 1e-6)
Candidate(d, half_extent) == IF NSign(d) > 0 /\ NLe(d, half_extent) THEN <<d>> ELSE <<>>

\* x_candidates (axis 1) or y_candidates (axis 2) of _estimate_corner_radius
RECURSIVE EdgeDistances(_, _, _, _, _)
EdgeDistances(points, axis, lo, hi, half_extent) ==
    IF points = <<>> THEN <<>>
    ELSE Candidate(NSub(Head(points)[axis], lo), half_extent)
            \o Candidate(NSub(hi, Head(points)[axis]), half_extent)
            \o EdgeDistances(Tail(points), axis, lo, hi, half_extent)

\* the return statements of _estimate_corner_radius
RadiusOf(x_candidates, y_candidates) ==
    IF x_candidates = <<>> /\ y_candidates = <<>> THEN Zero
    ELSE IF x_candidates # <<>> /\ y_candidates # <<>>
        THEN NOver(NAdd(Median(x_candidates), Median(y_candidates)), 2)
    ELSE IF x_candidates # <<>> THEN Median(x_candidates)
    ELSE Median(y_candidates)

\* _estimate_corner_radius
EstimateCornerRadius(items, rect) ==
    IF NSign(RectWidth(rect)) <= 0 \/ NSign(RectHeight(rect)) <= 0 THEN Zero
    ELSE RadiusOf(EdgeDistances(SegmentPoints(items), 1, rect[1], rect[3],
                                NOver(RectWidth(rect), 2)),
                  EdgeDistances(SegmentPoints(items), 2, rect[2], rect[4],
                                NOver(RectHeight(rect), 2)))

\* _rectangle_from_drawing: the rectangle detected, as a sequence of 0 or 1
RectangleFromDrawing(drawing) ==
    IF ~drawing.rect.some \/ drawing.items = <<>> THEN <<>>
    ELSE IF NSign(RectWidth(drawing.rect.val)) <= 0 \/ NSign(RectHeight(drawing.rect.val)) <= 0
        THEN <<>>
    ELSE <<[center |-> <<NOver(NAdd(drawing.rect.val[1], drawing.rect.val[3]), 2),
                         NOver(NAdd(drawing.rect.val[2], drawing.rect.val[4]), 2)>>,
            width |-> RectWidth(drawing.rect.val),
            height |-> RectHeight(drawing.rect.val),
            radius |-> IF Head(drawing.items).op = "re" THEN Zero
                       ELSE EstimateCornerRadius(drawing.items, drawing.rect.val)]>>

\* the loop `for drawing in drawings` of extract_template
RECURSIVE DetectRectangles(_)
DetectRectangles(drawings) ==
    IF drawings = <<>> THEN <<>>
    ELSE RectangleFromDrawing(Head(drawings)) \o DetectRectangles(Tail(drawings))

\* extract_template from the metrics on: the grid, the label, the anchors, the template
VectorTemplate(pg, rows, ordered, label_width, label_height, corner_radius) ==
    Construct([width_pt |-> pg.width_pt, height_pt |-> pg.height_pt],
              [kind |-> "rectangular",
               rows |-> Len(rows),
               columns |-> MaxOf(ColumnCounts(rows)),
               delta_x_pt |-> MedianOr(RowDeltas(rows), label_width),
               delta_y_pt |-> MedianOr(Diffs(RowCenters(rows)), label_height),
               row_offsets_pt |-> <<>>,
               columns_per_row |-> None],
              [shape |-> "rectangle", width_pt |-> label_width, height_pt |-> label_height],
              [top_left_pt |-> rows[1][1].center, bottom_left_pt |-> rows[Len(rows)][1].center],
              Centers(ordered),
              [corner_radius_pt |-> corner_radius])

VectorOrdered(pg, rows, ordered) ==
    VectorTemplate(pg, rows, ordered, Median(Widths(ordered)), Median(Heights(ordered)),
                   Median(Radii(ordered)))

VectorRows(pg, rows) ==
    IF rows = <<>> THEN ReturnedNone ELSE VectorOrdered(pg, rows, FlattenRows(rows))

VectorRectangles(pg, rectangles) ==
    IF rectangles = <<>> THEN ReturnedNone
    ELSE VectorRows(pg, VectorClusterRows(rectangles))

\* pdf_extract.extract_template(path, page)
VectorExtract(file, page) ==
    IF ~file.exists THEN Raised("FileNotFoundError")
    ELSE IF page < 0 \/ page >= Len(file.pages) THEN Raised("IndexError")
    ELSE VectorRectangles(file.pages[page + 1], DetectRectangles(file.pages[page + 1].drawings))

-----------------------------------------------------------------------------
(* image_extract.py: the raster detector *)

\* Pixel arrays are tuples of rows, indexed from 0 by At and Px.  Gradient
\* magnitudes are held in units of 1 / MagScale.
MagScale == 32

Rows(m) == Len(m)
Cols(m) == IF m = <<>> THEN 0 ELSE Len(m[1])

Clamp(i, n) == IF i < 0 THEN 0 ELSE IF i >= n THEN n - 1 ELSE i

\* np.pad(gray, 1, mode="edge")
Px(gray, r, c) == gray[Clamp(r, Rows(gray)) + 1][Clamp(c, Cols(gray)) + 1]

\* np.sum(windows * kernel_x)
GradX(gray, r, c) ==
    (Px(gray, r - 1, c - 1) + 2 * Px(gray, r, c - 1) + Px(gray, r + 1, c - 1))
    - (Px(gray, r - 1, c + 1) + 2 * Px(gray, r, c + 1) + Px(gray, r + 1, c + 1))

\* np.sum(windows * kernel_y)
GradY(gray, r, c) ==
    (Px(gray, r - 1, c - 1) + 2 * Px(gray, r - 1, c) + Px(gray, r - 1, c + 1))
    - (Px(gray, r + 1, c - 1) + 2 * Px(gray, r + 1, c) + Px(gray, r + 1, c + 1))

GradXArray(gray) ==
    Tup([r \in 1..Rows(gray) |->
            Tup([c \in 1..Cols(gray) |-> GradX(gray, r - 1, c - 1)], Cols(gray))], Rows(gray))

GradYArray(gray) ==
    Tup([r \in 1..Rows(gray) |->
            Tup([c \in 1..Cols(gray) |-> GradY(gray, r - 1, c - 1)], Cols(gray))], Rows(gray))

\* the integer square root of v, between lo and hi
RECURSIVE IsqrtBetween(_, _, _)
IsqrtBetween(v, lo, hi) ==
    IF lo >= hi THEN lo
    ELSE IF ((lo + hi + 1) \div 2) * ((lo + hi + 1) \div 2) <= v
        THEN IsqrtBetween(v, (lo + hi + 1) \div 2, hi)
    ELSE IsqrtBetween(v, lo, (lo + hi + 1) \div 2 - 1)

Isqrt(v) == IsqrtBetween(v, 0, Min(v, 32768))

\* np.hypot(grad_x, grad_y)
Hypot(gx, gy) == Isqrt((gx * gx + gy * gy) * MagScale * MagScale)

MagnitudeArray(grad_x, grad_y) ==
    Tup([r \in 1..Rows(grad_x) |->
            Tup([c \in 1..Cols(grad_x) |-> Hypot(grad_x[r][c], grad_y[r][c])], Cols(grad_x))],
        Rows(grad_x))

SobelOf(grad_x, grad_y) ==
    [magnitude |-> MagnitudeArray(grad_x, grad_y), grad_x |-> grad_x, grad_y |-> grad_y]

\* _sobel_edges
SobelEdges(gray) == SobelOf(GradXArray(gray), GradYArray(gray))

RECURSIVE Flat(_)
Flat(m) == IF m = <<>> THEN <<>> ELSE Head(m) \o Flat(Tail(m))

RECURSIVE SumRange(_, _, _)
SumRange(s, lo, hi) ==
    IF lo > hi THEN 0
    ELSE IF lo = hi THEN s[lo]
    ELSE SumRange(s, lo, (lo + hi) \div 2) + SumRange(s, (lo + hi) \div 2 + 1, hi)

RECURSIVE SumSqRange(_, _, _)
SumSqRange(s, lo, hi) ==
    IF lo > hi THEN 0
    ELSE IF lo = hi THEN s[lo] * s[lo]
    ELSE SumSqRange(s, lo, (lo + hi) \div 2) + SumSqRange(s, (lo + hi) \div 2 + 1, hi)

CountBelow(flat, v) == Cardinality({i \in DOMAIN flat : flat[i] < v})

\* the element at position k (from 0) of sorted(flat)
OrderStat(flat, k) ==
    CHOOSE v \in {flat[i] : i \in DOMAIN flat} :
        CountBelow(flat, v) <= k /\ k < CountBelow(flat, v + 1)

\* 100 * np.percentile(flat, q): linear interpolation at position q * (n - 1) / 100
PercentileAt(flat, pos) ==
    100 * OrderStat(flat, pos \div 100)
    + (pos % 100) * (OrderStat(flat, Min(pos \div 100 + 1, Len(flat) - 1))
                        - OrderStat(flat, pos \div 100))

\* magnitude >= max(high_percentile, mean + std), with
\* n * (mean + std) = sum + sqrt(n * sum of squares - sum^2)
AtLeastThreshold(m, n, high_percentile_100, sum, root) ==
    100 * m >= high_percentile_100 /\ n * m >= sum + root

MaskOf(magnitude, n, high_percentile_100, sum, root) ==
    Tup([r \in 1..Rows(magnitude) |->
            Tup([c \in 1..Cols(magnitude) |->
                    IF AtLeastThreshold(magnitude[r][c], n, high_percentile_100, sum, root)
                    THEN 1 ELSE 0], Cols(magnitude))], Rows(magnitude))

ThresholdFlat(magnitude, flat) ==
    MaskOf(magnitude, Len(flat), PercentileAt(flat, 92 * (Len(flat) - 1)),
           SumRange(flat, 1, Len(flat)),
           Isqrt(Len(flat) * SumSqRange(flat, 1, Len(flat))
                    - SumRange(flat, 1, Len(flat)) * SumRange(flat, 1, Len(flat))))

\* _threshold_edges
ThresholdEdges(magnitude) ==
    IF Rows(magnitude) * Cols(magnitude) = 0 THEN magnitude
    ELSE ThresholdFlat(magnitude, Flat(magnitude))

\* np.pad(result, 1, mode="constant", constant_values=0)
At(m, r, c) ==
    IF r < 0 \/ r >= Rows(m) \/ c < 0 \/ c >= Cols(m) THEN 0 ELSE m[r + 1][c + 1]

\* windows.max(axis=(-2, -1)), one iteration
Dilate(m) ==
    Tup([r \in 1..Rows(m) |->
            Tup([c \in 1..Cols(m) |->
                    IF \E a \in -1..1 : \E b \in -1..1 : At(m, r - 1 + a, c - 1 + b) = 1
                    THEN 1 ELSE 0], Cols(m))], Rows(m))

\* windows.min(axis=(-2, -1)), one iteration
Erode(m) ==
    Tup([r \in 1..Rows(m) |->
            Tup([c \in 1..Cols(m) |->
                    IF \A a \in -1..1 : \A b \in -1..1 : At(m, r - 1 + a, c - 1 + b) = 1
                    THEN 1 ELSE 0], Cols(m))], Rows(m))

\* _binary_dilation
RECURSIVE BinaryDilation(_, _)
BinaryDilation(image, iterations) ==
    IF iterations <= 0 THEN image ELSE BinaryDilation(Dilate(image), iterations - 1)

\* _binary_erosion
RECURSIVE BinaryErosion(_, _)
BinaryErosion(image, iterations) ==
    IF iterations <= 0 THEN image ELSE BinaryErosion(Erode(image), iterations - 1)

\* _binary_closing
BinaryClosing(image, iterations) == BinaryErosion(BinaryDilation(image, iterations), iterations)

\* a set, enumerated
Enum(S) == {x : x \in S}

\* the pixels (row, col) with mask[row, col] == 1
SetPixels(mask) ==
    Enum({p \in (0..(Rows(mask) - 1)) \X (0..(Cols(mask) - 1)) : mask[p[1] + 1][p[2] + 1] = 1})

\* Diagonal neighbours counted as neighbours too.
NeighboursWithDiagonals(p) ==
    {<<p[1] + a, p[2] + b>> : a \in -1..1, b \in -1..1} \ {p}

Neighbours(p) == {<<p[1] - 1, p[2]>>, <<p[1] + 1, p[2]>>, <<p[1], p[2] - 1>>, <<p[1], p[2] + 1>>}

\* the `while stack` loop: the set pixels reached from the seed over 4-neighbours
RECURSIVE Flood(_, _)
FloodNext(comp, next, on) == IF next = comp THEN comp ELSE Flood(next, on)
Flood(comp, on) ==
    FloodNext(comp, Enum(comp \cup {q \in on : \E p \in Neighbours(q) : p \in comp}), on)

\* the first pixel of S in the scan order (row, then col)
FirstPixel(S) ==
    CHOOSE p \in S : \A q \in S : p[1] < q[1] \/ (p[1] = q[1] /\ p[2] <= q[2])

MinSet(S) == CHOOSE m \in S : \A k \in S : m <= k
MaxSet(S) == CHOOSE m \in S : \A k \in S : k <= m

\* (min_r, min_c, max_r, max_c)
BoxOf(comp) ==
    <<MinSet({p[1] : p \in comp}), MinSet({p[2] : p \in comp}),
      MaxSet({p[1] : p \in comp}), MaxSet({p[2] : p \in comp})>>

\* if pixel_count < 16: continue; boxes.append(...)
BoxIfLarge(comp) == IF Cardinality(comp) < 16 THEN <<>> ELSE <<BoxOf(comp)>>

\* the scan of _connected_components over the set pixels not visited yet
RECURSIVE Components(_)
ComponentsAfter(remaining, comp) == BoxIfLarge(comp) \o Components(Enum(remaining \ comp))
Components(remaining) ==
    IF remaining = {} THEN <<>>
    ELSE ComponentsAfter(remaining, Flood({FirstPixel(remaining)}, remaining))

\* _connected_components
ConnectedComponents(mask) == Components(SetPixels(mask))

\* the groups of pixels marked in `visited`, one per flood fill, in scan order
RECURSIVE FloodFills(_)
FloodFillsAfter(remaining, comp) == <<comp>> \o FloodFills(Enum(remaining \ comp))
FloodFills(remaining) ==
    IF remaining = {} THEN <<>>
    ELSE FloodFillsAfter(remaining, Flood({FirstPixel(remaining)}, remaining))

\* what a call of _connected_components leaves: the boxes and the visits
Labelled(mask) ==
    [status |-> "boxes", error |-> "", template |-> NullTemplate,
     boxes |-> ConnectedComponents(mask), visited |-> FloodFills(SetPixels(mask))]

\* np.abs(grad_x[box]).max(axis=0)
ColProfile(grad_x, box) ==
    Tup([j \in 1..(box[4] - box[2] + 1) |->
            MaxSet({Abs(grad_x[r + 1][box[2] + j]) : r \in box[1]..box[3]})],
        box[4] - box[2] + 1)

\* np.abs(grad_y[box]).max(axis=1)
RowProfile(grad_y, box) ==
    Tup([i \in 1..(box[3] - box[1] + 1) |->
            MaxSet({Abs(grad_y[box[1] + i][c + 1]) : c \in box[2]..box[4]})],
        box[3] - box[1] + 1)

\* np.argmax(profile[lo:hi]): the offset of the first maximum of the slice
ArgMax(profile, lo, hi) ==
    (CHOOSE i \in (lo + 1)..hi :
        /\ \A k \in (lo + 1)..hi : profile[k] <= profile[i]
        /\ \A k \in (lo + 1)..(i - 1) : profile[k] < profile[i]) - (lo + 1)

Max(a, b) == IF a > b THEN a ELSE b

\* The peaks of the second halves taken as offsets from the start of the box.
RefineBoxUnsplit(box, col_profile, row_profile) ==
    IF MaxOf(col_profile) <= 0 \/ MaxOf(row_profile) <= 0 THEN box
    ELSE <<box[1] + ArgMax(row_profile, 0, Max(1, Len(row_profile) \div 2 + 1)),
           box[2] + ArgMax(col_profile, 0, Max(1, Len(col_profile) \div 2 + 1)),
           box[1] + ArgMax(row_profile, Len(row_profile) \div 2, Len(row_profile)),
           box[2] + ArgMax(col_profile, Len(col_profile) \div 2, Len(col_profile))>>

\* the body of the loop of _refine_boxes
RefineBox(box, col_profile, row_profile) ==
    IF MaxOf(col_profile) <= 0 \/ MaxOf(row_profile) <= 0 THEN box
    ELSE <<box[1] + ArgMax(row_profile, 0, Max(1, Len(row_profile) \div 2 + 1)),
           box[2] + ArgMax(col_profile, 0, Max(1, Len(col_profile) \div 2 + 1)),
           box[1] + ArgMax(row_profile, Len(row_profile) \div 2, Len(row_profile))
                  + Len(row_profile) \div 2,
           box[2] + ArgMax(col_profile, Len(col_profile) \div 2, Len(col_profile))
                  + Len(col_profile) \div 2>>

\* _refine_boxes
RefineBoxes(boxes, grad_x, grad_y) ==
    Tup([i \in DOMAIN boxes |->
            RefineBox(boxes[i], ColProfile(grad_x, boxes[i]), RowProfile(grad_y, boxes[i]))],
        Len(boxes))

\* the list a call of _refine_boxes returns
Refined(boxes) == [status |-> "boxes", error |-> "", template |-> NullTemplate, boxes |-> boxes]

\* the body of the loop of _component_boxes_to_rectangles
RectangleOfBox(box, scale) ==
    IF box[4] - box[2] + 1 <= 1 \/ box[3] - box[1] + 1 <= 1 THEN <<>>
    ELSE IF \/ NLt(NTimes(scale, box[4] - box[2] + 1), N(4))
            \/ NLt(NTimes(scale, box[3] - box[1] + 1), N(4)) THEN <<>>
    ELSE <<[center |-> <<NOver(NTimes(scale, box[2] + box[4] + 1), 2),
                         NOver(NTimes(scale, box[1] + box[3] + 1), 2)>>,
            width |-> NTimes(scale, box[4] - box[2] + 1),
            height |-> NTimes(scale, box[3] - box[1] + 1)]>>

\* _component_boxes_to_rectangles
RECURSIVE ComponentBoxesToRectangles(_, _)
ComponentBoxesToRectangles(boxes, scale) ==
    IF boxes = <<>> THEN <<>>
    ELSE RectangleOfBox(Head(boxes), scale) \o ComponentBoxesToRectangles(Tail(boxes), scale)

\* the test of _filter_boxes, with 0.6 and 1.4 as 3/5 and 7/5
WithinMedians(rect, width_median, height_median) ==
    /\ ~NLt(rect.width, NMul(width_median, Rat(3, 5)))
    /\ ~NLt(NMul(width_median, Rat(7, 5)), rect.width)
    /\ ~NLt(rect.height, NMul(height_median, Rat(3, 5)))
    /\ ~NLt(NMul(height_median, Rat(7, 5)), rect.height)

RECURSIVE Filtered(_, _, _)
Filtered(rectangles, width_median, height_median) ==
    IF rectangles = <<>> THEN <<>>
    ELSE (IF WithinMedians(Head(rectangles), width_median, height_median)
          THEN <<Head(rectangles)>> ELSE <<>>)
            \o Filtered(Tail(rectangles), width_median, height_median)

\* No fallback to the unfiltered list.
FilteredOnly(filtered, rectangles) == filtered

\* return filtered if filtered else list(rectangles)
FilteredOrAll(filtered, rectangles) == IF filtered # <<>> THEN filtered ELSE rectangles

\* _filter_boxes
FilterBoxes(rectangles) ==
    IF rectangles = <<>> THEN <<>>
    ELSE FilteredOrAll(Filtered(rectangles, Median(Widths(rectangles)),
                                Median(Heights(rectangles))), rectangles)

\* the list a call of _filter_boxes returns
Kept(rectangles) ==
    [status |-> "rectangles", error |-> "", template |-> NullTemplate,
     rectangles |-> rectangles]

RectanglesOfSobel(sobel, scale) ==
    FilterBoxes(ComponentBoxesToRectangles(
        RefineBoxes(ConnectedComponents(
                        BinaryDilation(BinaryClosing(ThresholdEdges(sobel.magnitude), 2), 1)),
                    sobel.grad_x, sobel.grad_y),
        scale))

\* _extract_rectangles_from_raster
ExtractRectanglesFromRaster(source) == RectanglesOfSobel(SobelEdges(source.gray), source.scale)

IMAGE_SUFFIXES == {".png", ".jpg", ".jpeg", ".tif", ".tiff", ".bmp"}

RasterError(e) ==
    [error |-> e, gray |-> <<>>, scale |-> Zero, page_width_pt |-> Zero, page_height_pt |-> Zero]

\* _render_raster_source for an image file or a rendered page: pg.gray is the
\* pixel buffer the decoder or the renderer yields
RasterSourceOf(file, pg, dpi) ==
    IF Rows(pg.gray) * Cols(pg.gray) = 0 THEN RasterError("ValueError")
    ELSE IF NSign(Rat(72, dpi)) <= 0 THEN RasterError("ValueError")
    ELSE [error |-> "", gray |-> pg.gray, scale |-> Rat(72, dpi),
          page_width_pt |-> IF file.is_pdf THEN pg.width_pt
                            ELSE NTimes(Rat(72, dpi), Cols(pg.gray)),
          page_height_pt |-> IF file.is_pdf THEN pg.height_pt
                             ELSE NTimes(Rat(72, dpi), Rows(pg.gray))]

\* _render_raster_source
RenderRasterSource(file, page, dpi) ==
    IF file.suffix \in IMAGE_SUFFIXES
        THEN IF page # 0 THEN RasterError("IndexError")
             ELSE RasterSourceOf(file, file.pages[1], dpi)
    ELSE IF page < 0 \/ page >= Len(file.pages) THEN RasterError("IndexError")
    ELSE RasterSourceOf(file, file.pages[page + 1], dpi)

\* extract_template from the metrics on: the grid, the label, the anchors, the template
RasterTemplate(raster, dpi, rows, ordered, label_width, label_height) ==
    Construct([width_pt |-> raster.page_width_pt, height_pt |-> raster.page_height_pt],
              [kind |-> "rectangular",
               rows |-> Len(rows),
               columns |-> MaxOf(ColumnCounts(rows)),
               delta_x_pt |-> MedianOr(RowDeltas(rows), label_width),
               delta_y_pt |-> MedianOr(Diffs(RowCenters(rows)), label_height),
               row_offsets_pt |-> <<>>,
               columns_per_row |-> Some(ColumnCounts(rows))],
              [shape |-> "rectangle", width_pt |-> label_width, height_pt |-> label_height],
              [top_left_pt |-> rows[1][1].center, bottom_left_pt |-> rows[Len(rows)][1].center],
              Centers(ordered),
              [extraction |-> "raster", dpi |-> dpi])

RasterOrdered(raster, dpi, rows, ordered) ==
    RasterTemplate(raster, dpi, rows, ordered, Median(Widths(ordered)), Median(Heights(ordered)))

RasterRows(raster, dpi, rows) ==
    IF rows = <<>> THEN ReturnedNone ELSE RasterOrdered(raster, dpi, rows, FlattenRows(rows))

RasterRectangles(raster, dpi, rectangles) ==
    IF rectangles = <<>> THEN ReturnedNone
    ELSE RasterRows(raster, dpi, RasterClusterRows(rectangles))

RasterOf(raster, dpi) ==
    IF raster.error # "" THEN Raised(raster.error)
    ELSE RasterRectangles(raster, dpi, ExtractRectanglesFromRaster(raster))

\* image_extract.extract_template(path, page, dpi=dpi)
RasterExtract(file, page, dpi) ==
    IF dpi <= 0 THEN Raised("ValueError")
    ELSE IF ~file.exists THEN Raised("FileNotFoundError")
    ELSE RasterOf(RenderRasterSource(file, page, dpi), dpi)

-----------------------------------------------------------------------------
(* geometry.py: unit conversions *)

POINTS_PER_INCH == N(72)
MM_PER_INCH == Rat(127, 5)

\* x / y for a positive rational y
NDivide(x, y) == NumNorm(x[1] * y[3], x[2] * y[3], x[3] * y[1])

\* isinstance(value, tuple): a point is a pair of numbers, a number a triple
IsPoint(value) == Len(value) = 2

\* the result of a conversion
Converted(v) == [status |-> "value", error |-> "", template |-> NullTemplate, value |-> v]

\* points_to_inches
points_to_inches(value) ==
    IF IsPoint(value)
        THEN <<NDivide(value[1], POINTS_PER_INCH), NDivide(value[2], POINTS_PER_INCH)>>
    ELSE NDivide(value, POINTS_PER_INCH)

\* The division by POINTS_PER_INCH left out.
points_to_mm_of_points(value) ==
    IF IsPoint(value)
        THEN <<NMul(value[1], MM_PER_INCH), NMul(value[2], MM_PER_INCH)>>
    ELSE NMul(value, MM_PER_INCH)

\* points_to_mm: inches = points_to_inches(value), times MM_PER_INCH
points_to_mm(value) ==
    IF IsPoint(value)
        THEN <<NMul(points_to_inches(value)[1], MM_PER_INCH),
               NMul(points_to_inches(value)[2], MM_PER_INCH)>>
    ELSE NMul(points_to_inches(value), MM_PER_INCH)

\* inches_to_points
inches_to_points(value) ==
    IF IsPoint(value)
        THEN <<NMul(value[1], POINTS_PER_INCH), NMul(value[2], POINTS_PER_INCH)>>
    ELSE NMul(value, POINTS_PER_INCH)

\* mm_to_points: component * POINTS_PER_INCH / MM_PER_INCH
mm_to_points(value) ==
    IF IsPoint(value)
        THEN <<NDivide(NMul(value[1], POINTS_PER_INCH), MM_PER_INCH),
               NDivide(NMul(value[2], POINTS_PER_INCH), MM_PER_INCH)>>
    ELSE NDivide(NMul(value, POINTS_PER_INCH), MM_PER_INCH)

\* percent_of_width: _validate_page_width, then scale = 100.0 / page_width_pt
percent_of_width(point, page_width_pt) ==
    IF NSign(page_width_pt) <= 0 THEN Raised("ValueError")
    ELSE Converted(<<NMul(point[1], NDivide(N(100), page_width_pt)),
                     NMul(point[2], NDivide(N(100), page_width_pt))>>)

-----------------------------------------------------------------------------
(* render.py: the JSON template loader *)
CoordinateSpaces == {"points", "percent_width", "inches", "mm"}

\* _convert_length, for a supported coordinate space
ConvertLength(value, coord_space, page_width_pt) ==
    IF coord_space = "points" THEN value
    ELSE IF coord_space = "percent_width" THEN NOver(NMul(value, page_width_pt), 100)
    ELSE IF coord_space = "inches" THEN NMul(value, POINTS_PER_INCH)
    ELSE NumNorm(value[1] * POINTS_PER_INCH[1] * MM_PER_INCH[3], 0,
                 value[3] * MM_PER_INCH[1])

\* _convert_point
ConvertPoint(point, coord_space, page_width_pt) ==
    <<ConvertLength(point[1], coord_space, page_width_pt),
      ConvertLength(point[2], coord_space, page_width_pt)>>

\* _load_template_from_json on the parsed payload
LoadTemplateFromJson(payload) ==
    IF ~PageMetricsValid(payload.page) THEN Raised("ValueError")
    ELSE IF ~GridMetricsValid(payload.grid) THEN Raised("ValueError")
    ELSE IF ~LabelGeometryValid(payload.label) THEN Raised("ValueError")
    ELSE IF payload.centers # <<>> /\ payload.centers_coord_space \notin CoordinateSpaces
        THEN Raised("ValueError")
    ELSE ExtractedTemplate(payload.page, payload.grid, payload.label, payload.anchors,
            Tup([i \in DOMAIN payload.centers |->
                    ConvertPoint(payload.centers[i], payload.centers_coord_space,
                                 payload.page.width_pt)], Len(payload.centers)),
            payload.metadata)

-----------------------------------------------------------------------------
(* __init__.py: the top-level extract_template *)

\* if dpi <= 0: raise ValueError is skipped.
DpiRejectedNever(dpi) == FALSE

\* if dpi <= 0: raise ValueError
DpiRejected(dpi) == dpi <= 0

\* The backends tried in the opposite order.
AttemptsSwapped(prefer_vector) ==
    IF prefer_vector THEN <<"raster", "vector">> ELSE <<"vector", "raster">>

\* attempts = ("vector", "raster") if prefer_vector else ("raster", "vector")
Attempts(prefer_vector) ==
    IF prefer_vector THEN <<"vector", "raster">> ELSE <<"raster", "vector">>

\* the backend call of one iteration of the loop
Backend(mode, a) ==
    IF mode = "vector" THEN VectorExtract(a.file, a.page)
    ELSE RasterExtract(a.file, a.page, a.dpi)

\* except (FileNotFoundError, IndexError): raise
Fatal(outcome) ==
    outcome.status = "error" /\ outcome.error \in {"FileNotFoundError", "IndexError"}

-----------------------------------------------------------------------------
(* job_runner.py: batch rendering jobs *)

\* A job is [name, template (the parsed template file), output_path, items,
\* metadata, render]; render is what render_to_pdf does when it is called
\* for the job: "ok", or the message of the exception it raises.

\* JobDefinition.display_name: the name, or the stem of the output path
DisplayName(job) == IF job.name # "" THEN job.name ELSE job.output_path.stem

\* {**a, **b}
Merge(a, b) == [k \in DOMAIN a \cup DOMAIN b |-> IF k \in DOMAIN b THEN b[k] ELSE a[k]]

\* _execute_job: the metadata of the result
JobMetadata(job, index) ==
    Merge([index |-> index, name |-> DisplayName(job)], job.metadata)

\* a call that passes keyword arguments the callee does not declare raises TypeError
Accepts(declared, passed) == passed \subseteq declared

\* the parameters of render._parse_render_item and the fields of render.RenderSpec
ParseRenderItemParameters == {"data", "default_coord_space", "base_path"}
RenderSpecFields == {"template", "items", "coord_space"}

BuildFailed(message) == [ok |-> FALSE, error |-> message]

\* _build_render_spec once the template is loaded: the items, then RenderSpec(...)
BuildRenderItems(job) ==
    IF job.items > 0
          /\ ~Accepts(ParseRenderItemParameters,
                      {"data", "default_coord_space", "base_path", "encoder_registry"})
        THEN BuildFailed("TypeError: _parse_render_item")
    ELSE IF ~Accepts(RenderSpecFields, {"template", "items", "coord_space", "encoder_registry"})
        THEN BuildFailed("TypeError: RenderSpec")
    ELSE [ok |-> TRUE, error |-> ""]

\* _build_render_spec: ok = FALSE stands for a raised exception
BuildRenderSpec(job, template) ==
    IF template.status # "template" THEN BuildFailed(template.error)
    ELSE BuildRenderItems(job)

\* JobResult(definition, success, output_path, error, metadata)
JobFailed(job, index, message) ==
    [definition |-> job, success |-> FALSE, output_path |-> None, error |-> message,
     metadata |-> Merge(JobMetadata(job, index), [error |-> message])]

JobSucceeded(job, index) ==
    [definition |-> job, success |-> TRUE, output_path |-> Some(job.output_path), error |-> "",
     metadata |-> JobMetadata(job, index)]

\* is render_to_pdf reached by _execute_job
RendererCalled(job) == BuildRenderSpec(job, LoadTemplateFromJson(job.template)).ok

\* _execute_job after _build_render_spec: render_to_pdf, or the except branch
ExecuteBuilt(job, index, spec) ==
    IF ~spec.ok THEN JobFailed(job, index, spec.error)
    ELSE IF job.render # "ok" THEN JobFailed(job, index, job.render)
    ELSE JobSucceeded(job, index)

\* JobRunner._execute_job
ExecuteJob(job, index) ==
    ExecuteBuilt(job, index, BuildRenderSpec(job, LoadTemplateFromJson(job.template)))

\* The break after a failed job left out.
HaltAfterNever(halt_on_error, last) == FALSE

\* if self.config.halt_on_error and not results[-1].success: break
HaltAfter(halt_on_error, last) == halt_on_error /\ ~last.success

\* The halt_on_error check of a chunk left out.
StopSchedulingNever(halt_on_error, chunk_results) == FALSE

\* if self.config.halt_on_error and any(not res.success for res in chunk_results)
StopScheduling(halt_on_error, chunk_results) ==
    halt_on_error /\ \E i \in DOMAIN chunk_results : ~chunk_results[i].success

\* if self.config.max_workers and self.config.max_workers > 1
Concurrent(cfg) == cfg.max_workers.some /\ cfg.max_workers.val # 0 /\ cfg.max_workers.val > 1

\* RunnerConfig.__post_init__ does not raise
RunnerConfigValid(cfg) ==
    /\ cfg.chunk_size > 0
    /\ cfg.max_workers.some => cfg.max_workers.val > 0

\* JobReport.summary()
Summary(report) ==
    [total |-> Len(report),
     succeeded |-> Cardinality({i \in DOMAIN report : report[i].success}),
     failed |-> Cardinality({i \in DOMAIN report : ~report[i].success})]

\* JobReport(results=results), as the result of the call
Report(report) ==
    [status |-> "report", error |-> "", template |-> NullTemplate, results |-> report]

\* _collect_futures: the results of the futures, in the order of the list
CollectFutures(futures) == Tup([i \in DOMAIN futures |-> futures[i].result], Len(futures))

-----------------------------------------------------------------------------
(* Inputs of the synthesizer *)

MaxPage == 6      \* page widths and heights range over 1..MaxPage
MaxCap == 2       \* max_cols and max_rows range over 1..MaxCap

SynthArgs(layout, w, h, d, margins, gap, max_cols, max_rows) ==
    [layout |-> layout, page_w_pt |-> N(w), page_h_pt |-> N(h), diameter_pt |-> N(d),
     margin_pt |-> [i \in DOMAIN margins |-> N(margins[i])], gap_pt |-> N(gap),
     max_cols |-> max_cols, max_rows |-> max_rows]

Layouts == {"simple", "close"}
Diameters == {1, 2}
Gaps == {0, 1}
MarginChoices == {<<0, 0, 0, 0>>, <<1, 0, 0, 0>>, <<0, 1, 0, 0>>, <<0, 0, 1, 0>>, <<0, 0, 0, 1>>}
Caps == {<<None, None>>} \cup
        UNION {{<<Some(k), None>>, <<None, Some(k)>>, <<Some(k), Some(k)>>} : k \in 1..MaxCap}

\* every margin, no caps
UncappedInputs ==
    {SynthArgs(l, w, h, d, m, g, None, None) :
        l \in Layouts, w \in 1..MaxPage, h \in 1..MaxPage, d \in Diameters,
        m \in MarginChoices, g \in Gaps}

\* every cap, no margins
CappedInputs ==
    {SynthArgs(l, w, h, 1, <<0, 0, 0, 0>>, g, c[1], c[2]) :
        l \in Layouts, w \in 1..MaxPage, h \in 1..MaxPage, g \in Gaps, c \in Caps}

\* US Letter, 36pt circles, 12pt gap, 36pt margins (tests/test_geometry.py)
LetterInputs ==
    {SynthArgs(l, 612, 792, 36, <<36, 36, 36, 36>>, 12, None, None) : l \in Layouts}

\* one argument of a valid call made invalid
InvalidInputs ==
    {SynthArgs("hex", 4, 4, 1, <<0, 0, 0, 0>>, 0, None, None),
     SynthArgs("simple", 4, 4, 0, <<0, 0, 0, 0>>, 0, None, None),
     SynthArgs("simple", 4, 4, 1, <<0, 0, 0, 0>>, -1, None, None),
     SynthArgs("close", 4, 4, 1, <<0, -1, 0, 0>>, 0, None, None),
     SynthArgs("close", 4, 4, 1, <<0, 0, 0>>, 0, None, None),
     SynthArgs("simple", 0, 4, 1, <<0, 0, 0, 0>>, 0, None, None),
     SynthArgs("simple", 4, -1, 1, <<0, 0, 0, 0>>, 0, None, None),
     SynthArgs("simple", 4, 4, 1, <<0, 0, 0, 0>>, 0, Some(0), None),
     SynthArgs("simple", 4, 4, 1, <<0, 0, 0, 0>>, 0, None, Some(-1)),
     SynthArgs("CLOSE", 4, 4, 1, <<0, 0, 0, 0>>, 0, None, None),
     SynthArgs("Simple", 4, 4, 1, <<0, 0, 0, 0>>, 0, None, None)}

SynthInputs == UncappedInputs \cup CappedInputs \cup LetterInputs \cup InvalidInputs

-----------------------------------------------------------------------------
(* Inputs of the detectors, the loader and the top-level call *)

MaxGridRows == 3     \* drawn grids have 1..MaxGridRows rows
MaxGridCols == 3     \* of 1..MaxGridCols labels each
MaxBlank == 7        \* blank pixel buffers are 3..MaxBlank pixels high and wide
MaxCentres == 3      \* a JSON payload lists 0..MaxCentres centres

Reverse(s) == Tup([i \in 1..Len(s) |-> s[Len(s) + 1 - i]], Len(s))

\* a drawing whose first item is a rectangle operator
RectDrawing(x0, y0, x1, y1) ==
    [rect |-> Some(<<N(x0), N(y0), N(x1), N(y1)>>), items |-> <<[op |-> "re", points |-> <<>>]>>]

\* the label in row r and column c (from 0): 4 wide, 2 high, pitch 6 by 4
LabelDrawing(r, c) == RectDrawing(1 + 6 * c, 1 + 4 * r, 5 + 6 * c, 3 + 4 * r)

\* one drawing, or two at the same place (stroke and fill)
Drawn(d, twice) == IF twice THEN <<d, d>> ELSE <<d>>

RECURSIVE RowDrawings(_, _, _)
RowDrawings(r, n, twice) ==
    IF n = 0 THEN <<>> ELSE RowDrawings(r, n - 1, twice) \o Drawn(LabelDrawing(r, n - 1), twice)

RECURSIVE GridDrawings(_, _, _)
GridDrawings(row_counts, k, twice) ==
    IF k = 0 THEN <<>>
    ELSE GridDrawings(row_counts, k - 1, twice) \o RowDrawings(k - 1, row_counts[k], twice)

\* two labels of one row, the left one 1pt lower than the right one
JitterDrawings == <<RectDrawing(1, 2, 5, 6), RectDrawing(7, 1, 11, 5)>>

\* a rounded rectangle drawn as four segments joined by curves
RoundedDrawing ==
    [rect |-> Some(<<N(1), N(1), N(9), N(7)>>),
     items |-> <<[op |-> "l", points |-> <<<<N(2), N(1)>>, <<N(8), N(1)>>>>],
                 [op |-> "c", points |-> <<<<N(8), N(1)>>, <<N(9), N(1)>>, <<N(9), N(2)>>>>],
                 [op |-> "l", points |-> <<<<N(9), N(2)>>, <<N(9), N(6)>>>>],
                 [op |-> "l", points |-> <<<<N(8), N(7)>>, <<N(2), N(7)>>>>],
                 [op |-> "l", points |-> <<<<N(1), N(6)>>, <<N(1), N(2)>>>>]>>]

\* drawings that are no rectangles: no rect, no items, no width
NoRectangleDrawings ==
    <<[rect |-> None, items |-> <<[op |-> "re", points |-> <<>>]>>],
      [rect |-> Some(<<N(1), N(1), N(5), N(3)>>), items |-> <<>>],
      RectDrawing(1, 1, 1, 3)>>

BlankImage(h, w, level) == Tup([r \in 1..h |-> Tup([c \in 1..w |-> level], w)], h)

\* is pixel i inside one of n blocks, 4 pixels long, 7 apart, the first at 2
InBlock(i, n) == \E k \in 0..(n - 1) : 2 + 11 * k <= i /\ i <= 5 + 11 * k

\* black labels (0) on white (1), row_counts[i] labels in row i
LabelImage(row_counts) ==
    Tup([r \in 1..(11 * Len(row_counts) - 3) |->
            Tup([c \in 1..(11 * MaxOf(row_counts) - 3) |->
                    IF \E i \in DOMAIN row_counts :
                            /\ 2 + 11 * (i - 1) <= r - 1 /\ r - 1 <= 5 + 11 * (i - 1)
                            /\ InBlock(c - 1, row_counts[i])
                    THEN 0 ELSE 1], 11 * MaxOf(row_counts) - 3)],
        11 * Len(row_counts) - 3)

\* A page: its size, its drawings, the pixel buffer it renders to, and what
\* was drawn (row_counts is <<>> when the drawings are no grid).
Page(drawings, gray, row_counts, twice) ==
    [width_pt |-> N(20), height_pt |-> N(16), drawings |-> drawings, gray |-> gray,
     row_counts |-> row_counts, twice |-> twice]

PdfFile(pages) == [exists |-> TRUE, suffix |-> ".pdf", is_pdf |-> TRUE, pages |-> pages]

\* an image opens as a one-page document without drawings
ImageFile(gray) ==
    [exists |-> TRUE, suffix |-> ".png", is_pdf |-> FALSE,
     pages |-> <<[width_pt |-> N(Cols(gray)), height_pt |-> N(Rows(gray)), drawings |-> <<>>,
                  gray |-> gray, row_counts |-> <<>>, twice |-> FALSE]>>]

MissingFile == [exists |-> FALSE, suffix |-> ".pdf", is_pdf |-> TRUE, pages |-> <<>>]

SmallBlank == BlankImage(3, 3, 1)

RowCounts == UNION {[1..n -> 1..MaxGridCols] : n \in 1..MaxGridRows}

GridPage(row_counts, twice, reversed, gray) ==
    Page(IF reversed THEN Reverse(GridDrawings(row_counts, Len(row_counts), twice))
         ELSE GridDrawings(row_counts, Len(row_counts), twice),
         gray, row_counts, twice)

OtherPages ==
    {Page(<<>>, SmallBlank, <<>>, FALSE),
     Page(NoRectangleDrawings, SmallBlank, <<>>, FALSE),
     Page(JitterDrawings, SmallBlank, <<>>, FALSE),
     Page(<<RoundedDrawing>>, SmallBlank, <<>>, FALSE),
     Page(<<RoundedDrawing, RectDrawing(11, 1, 19, 7)>>, SmallBlank, <<>>, FALSE),
     GridPage(<<4, 3, 4>>, FALSE, FALSE, SmallBlank)}

VectorFiles ==
    {PdfFile(<<GridPage(rc, tw, rv, SmallBlank)>>) :
        rc \in RowCounts, tw \in BOOLEAN, rv \in BOOLEAN}
    \cup {PdfFile(<<pg>>) : pg \in OtherPages}
    \cup {MissingFile}

LabelLayouts == {<<1>>, <<2>>, <<1, 1>>, <<2, 1>>}

RasterFiles ==
    {ImageFile(BlankImage(h, w, level)) : h \in 3..MaxBlank, w \in 3..MaxBlank, level \in {0, 1}}
    \cup {ImageFile(LabelImage(rc)) : rc \in LabelLayouts}
    \cup {ImageFile(<<>>), PdfFile(<<Page(<<>>, LabelImage(<<2>>), <<>>, FALSE)>>), MissingFile}

TopFiles ==
    {MissingFile,
     PdfFile(<<GridPage(<<2, 1>>, FALSE, FALSE, SmallBlank)>>),
     PdfFile(<<GridPage(<<2>>, FALSE, FALSE, LabelImage(<<2>>))>>),
     PdfFile(<<Page(<<>>, LabelImage(<<2>>), <<>>, FALSE)>>),
     PdfFile(<<Page(<<>>, SmallBlank, <<>>, FALSE)>>),
     PdfFile(<<Page(<<>>, BlankImage(6, 6, 1), <<>>, FALSE)>>),
     PdfFile(<<GridPage(<<1>>, TRUE, FALSE, SmallBlank)>>),
     PdfFile(<<GridPage(<<1>>, TRUE, FALSE, LabelImage(<<1>>))>>),
     PdfFile(<<GridPage(<<2, 2>>, FALSE, FALSE, SmallBlank), Page(<<>>, SmallBlank, <<>>, FALSE)>>),
     ImageFile(LabelImage(<<1, 1>>)),
     ImageFile(SmallBlank),
     ImageFile(<<>>)}

PageIndexes == -1..2
Dpis == {72, 144}
BadDpis == {0, -72}

CallArgs(file, page, prefer_vector, dpi) ==
    [file |-> file, page |-> page, prefer_vector |-> prefer_vector, dpi |-> dpi]

LoaderPoints == {<<N(x), N(y)>> : x \in 0..1, y \in 0..1}

Payload(width, rows, centers, coord_space) ==
    [page |-> [width_pt |-> N(width), height_pt |-> N(100)],
     grid |-> [kind |-> "rectangular", rows |-> rows, columns |-> 1, delta_x_pt |-> N(1),
               delta_y_pt |-> N(1), row_offsets_pt |-> <<>>, columns_per_row |-> None],
     label |-> [shape |-> "rectangle", width_pt |-> N(1), height_pt |-> N(1)],
     anchors |-> [top_left_pt |-> <<Zero, Zero>>, bottom_left_pt |-> <<Zero, Zero>>],
     centers |-> centers,
     centers_coord_space |-> coord_space,
     metadata |-> [layout |-> ""]]

CentreLists == UNION {[1..n -> LoaderPoints] : n \in 0..MaxCentres}

Payloads ==
    {Payload(50, 1, cs, sp) : cs \in CentreLists, sp \in CoordinateSpaces \cup {"furlongs"}}
    \cup {Payload(0, 1, <<<<Zero, Zero>>>>, "points"), Payload(50, 0, <<<<Zero, Zero>>>>, "points")}

-----------------------------------------------------------------------------
(* The state machine *)

MaxValue == 4        \* converted lengths are n/1, n/7 and n/100 for n up to MaxValue
MaxWidth == 3        \* page widths given to percent_of_width go up to MaxWidth

Lengths == {Rat(n, d) : n \in (-1)..MaxValue, d \in {1, 7, 100}}
ConvPoints == {<<x, y>> : x \in {Rat(n, 7) : n \in (-1)..MaxValue}, y \in {N(0), Rat(5, 3)}}
ConvValues == Lengths \cup ConvPoints
PageWidths == {Rat(n, d) : n \in (-1)..MaxWidth, d \in {1, 3}}

MaxJobs == 3         \* a runner has 0..MaxJobs jobs
MaxChunk == 2        \* chunk_size ranges over 1..MaxChunk
MaxWorkers == 2      \* max_workers is None or 1..MaxWorkers

Job(name, stem, template, items, metadata, render) ==
    [name |-> name, template |-> template,
     output_path |-> [parent |-> "outputs", stem |-> stem, suffix |-> ".pdf"],
     items |-> items, metadata |-> metadata, render |-> render]

NoMetadata == [k \in {} |-> ""]

\* the template file of tests/test_job_runner.py, and one whose page has no width
TemplateFile == Payload(50, 1, <<<<N(1), N(1)>>>>, "points")
BadTemplateFile == Payload(0, 1, <<<<N(1), N(1)>>>>, "points")

\* jobs with and without items, a name, metadata, a loadable template, and a
\* renderer that raises
Jobs ==
    {Job("alpha", "alpha", TemplateFile, 1, [batch |-> "A"], "ok"),
     Job("beta", "beta", TemplateFile, 1, NoMetadata, "boom"),
     Job("", "first", TemplateFile, 0, NoMetadata, "ok"),
     Job("gamma", "gamma", BadTemplateFile, 0, NoMetadata, "ok")}

JobLists == UNION {[1..n -> Jobs] : n \in 0..MaxJobs}

RunnerConfig(chunk_size, max_workers, halt_on_error) ==
    [chunk_size |-> chunk_size, max_workers |-> max_workers, halt_on_error |-> halt_on_error]

Configs ==
    {RunnerConfig(c, w, h) :
        c \in 1..MaxChunk, w \in {None} \cup {Some(k) : k \in 1..MaxWorkers}, h \in BOOLEAN}

MaxCandidates == 3   \* _cluster_rows is given 0..MaxCandidates candidates

\* the i-th candidate of a list: 4 wide, at x = 5 * i
CandidateAt(i, y, height) ==
    [center |-> <<N(5 * i), N(y)>>, width |-> N(4), height |-> N(height), radius |-> Zero]

CandidateLists ==
    {Tup([i \in 1..Len(f) |-> CandidateAt(i, f[i][1], f[i][2])], Len(f)) :
        f \in UNION {[1..n -> {0, 1, 3, 4} \X {2, 10}] : n \in 0..MaxCandidates}}

MaxInferred == 3     \* grid inference is given 0..MaxInferred candidates

\* a candidate rectangle of grid inference
InferredAt(x, y, width, height) ==
    [center |-> <<N(x), N(y)>>, width |-> N(width), height |-> N(height), radius |-> Zero]

\* candidates in two columns and three heights on the page, of two sizes
Inferable ==
    {InferredAt(x, y, size[1], size[2]) :
        x \in {2, 8}, y \in {3, 4, 9}, size \in {<<4, 4>>, <<6, 2>>}}

InferredLists ==
    {Tup(f, Len(f)) : f \in UNION {[1..n -> Inferable] : n \in 0..MaxInferred}}

\* the page the candidates were found on, and the raster it was rendered to
InferredPage == [width_pt |-> N(20), height_pt |-> N(16)]
InferredRaster ==
    [error |-> "", gray |-> <<>>, scale |-> N(1), page_width_pt |-> N(20),
     page_height_pt |-> N(16)]

MaxSpeckles == 2     \* a mask has 0..MaxSpeckles pixels set outside its blocks

\* Masks are 5 pixels high and 9 wide.  Two blocks of 16 pixels, one pixel apart.
BlockA == (0..3) \X (0..3)
BlockB == (0..3) \X (5..8)

BlockSets ==
    {BlockA, BlockA \ {<<0, 0>>}, BlockA \cup BlockB, (BlockA \ {<<0, 0>>}) \cup BlockB}

\* the pixels between and below the blocks, and the corner of the first block
GapPixels == ({4} \X (0..8)) \cup ((0..3) \X {4}) \cup {<<0, 0>>}

SpeckleSets ==
    {{f[i] : i \in DOMAIN f} : f \in UNION {[1..n -> GapPixels] : n \in 0..MaxSpeckles}}

MaskOfPixels(S) ==
    Tup([r \in 1..5 |-> Tup([c \in 1..9 |-> IF <<r - 1, c - 1>> \in S THEN 1 ELSE 0], 9)], 5)

Masks == {MaskOfPixels(blocks \cup speckles) : blocks \in BlockSets, speckles \in SpeckleSets}

MaxSide == 3         \* gradient arrays are 1..MaxSide pixels high and wide

\* a gradient array that is 0 but for its last row, which holds values
LastRowArray(values) ==
    Tup([r \in 1..Len(values) |->
            Tup([c \in 1..Len(values) |-> IF r = Len(values) THEN values[c] ELSE 0],
                Len(values))], Len(values))

\* a gradient array that is 0 but for its last column, which holds values
LastColumnArray(values) ==
    Tup([r \in 1..Len(values) |->
            Tup([c \in 1..Len(values) |-> IF c = Len(values) THEN values[r] ELSE 0],
                Len(values))], Len(values))

GradientValues(n) == {Tup(f, n) : f \in [1..n -> {0, -1, 2}]}

\* the box of the whole array, and the box without the first row and column
BoxesOfSide(n) ==
    IF n = 1 THEN <<<<0, 0, 0, 0>>>> ELSE <<<<0, 0, n - 1, n - 1>>, <<1, 1, n - 1, n - 1>>>>

MaxBoxes == 3        \* _filter_boxes is given 0..MaxBoxes rectangles

\* the i-th rectangle of a list given to _filter_boxes
BoxAt(i, width, height) ==
    [center |-> <<N(20 * i), N(10)>>, width |-> N(width), height |-> N(height)]

BoxLists ==
    {Tup([i \in 1..Len(f) |-> BoxAt(i, f[i][1], f[i][2])], Len(f)) :
        f \in UNION {[1..n -> {6, 10, 14, 15} \X {10, 20}] : n \in 0..MaxBoxes}}

NoArgs == [layout |-> ""]

Init ==
    /\ op = "idle"
    /\ args = NoArgs
    /\ result = ReturnedNone
    /\ pc = "idle"
    /\ queue = <<>>
    /\ ran = <<>>
    /\ results = <<>>
    /\ pending = <<>>
    /\ calls = <<>>
    /\ executed = <<>>
    /\ idx = 0
    /\ stop_scheduling = FALSE

\* a call of geometry.synthesize_circles
Synthesize ==
    /\ op = "idle"
    /\ \E a \in SynthInputs :
          /\ op' = "synthesize_circles"
          /\ args' = a
          /\ result' = SynthesizeCircles(a)
    /\ UNCHANGED <<pc, queue, ran, batch>>

\* a call of pdf_extract.extract_template
ExtractVector ==
    /\ op = "idle"
    /\ \E f \in VectorFiles : \E page \in 0..1 :
          /\ op' = "pdf_extract"
          /\ args' = CallArgs(f, page, TRUE, 200)
          /\ result' = VectorExtract(f, page)
    /\ UNCHANGED <<pc, queue, ran, batch>>

\* a call of image_extract.extract_template
ExtractRaster ==
    /\ op = "idle"
    /\ \E f \in RasterFiles : \E page \in 0..1 : \E dpi \in Dpis \cup BadDpis :
          /\ op' = "image_extract"
          /\ args' = CallArgs(f, page, FALSE, dpi)
          /\ result' = RasterExtract(f, page, dpi)
    /\ UNCHANGED <<pc, queue, ran, batch>>

\* a call of render._load_template_from_json
LoadTemplate ==
    /\ op = "idle"
    /\ \E payload \in Payloads :
          /\ op' = "load_template"
          /\ args' = [payload |-> payload]
          /\ result' = LoadTemplateFromJson(payload)
    /\ UNCHANGED <<pc, queue, ran, batch>>

\* templator.extract_template is called: the dpi check and the attempts
TopCall ==
    /\ op = "idle"
    /\ \E f \in TopFiles : \E page \in PageIndexes : \E pv \in BOOLEAN :
       \E dpi \in Dpis \cup BadDpis :
          /\ op' = "extract_template"
          /\ args' = CallArgs(f, page, pv, dpi)
          /\ IF DpiRejected(dpi)
                THEN /\ result' = Raised("ValueError")
                     /\ pc' = "done"
                     /\ queue' = <<>>
                ELSE /\ result' = ReturnedNone
                     /\ pc' = "loop"
                     /\ queue' = Attempts(pv)
    /\ ran' = <<>>
    /\ UNCHANGED batch

\* one iteration of `for mode in attempts`, given what the backend did
TopIteration(outcome) ==
    /\ ran' = Append(ran, [mode |-> Head(queue), outcome |-> outcome])
    /\ queue' = Tail(queue)
    /\ IF Fatal(outcome) \/ outcome.status = "template"
          THEN result' = outcome /\ pc' = "done"
          ELSE result' = result /\ pc' = "loop"
    /\ UNCHANGED <<op, args, batch>>

\* the next backend is tried
TopAttempt ==
    /\ op = "extract_template" /\ pc = "loop" /\ queue # <<>>
    /\ TopIteration(Backend(Head(queue), args))

\* the loop is over: return None
TopReturnNone ==
    /\ op = "extract_template" /\ pc = "loop" /\ queue = <<>>
    /\ result' = ReturnedNone
    /\ pc' = "done"
    /\ UNCHANGED <<op, args, queue, ran, batch>>

\* a call of one of the four unit conversions of geometry.py
PointsToInches ==
    /\ op = "idle"
    /\ \E v \in ConvValues :
          /\ op' = "points_to_inches"
          /\ args' = [value |-> v]
          /\ result' = Converted(points_to_inches(v))
    /\ UNCHANGED <<pc, queue, ran, batch>>

PointsToMm ==
    /\ op = "idle"
    /\ \E v \in ConvValues :
          /\ op' = "points_to_mm"
          /\ args' = [value |-> v]
          /\ result' = Converted(points_to_mm(v))
    /\ UNCHANGED <<pc, queue, ran, batch>>

InchesToPoints ==
    /\ op = "idle"
    /\ \E v \in ConvValues :
          /\ op' = "inches_to_points"
          /\ args' = [value |-> v]
          /\ result' = Converted(inches_to_points(v))
    /\ UNCHANGED <<pc, queue, ran, batch>>

MmToPoints ==
    /\ op = "idle"
    /\ \E v \in ConvValues :
          /\ op' = "mm_to_points"
          /\ args' = [value |-> v]
          /\ result' = Converted(mm_to_points(v))
    /\ UNCHANGED <<pc, queue, ran, batch>>

\* a call of geometry.percent_of_width
PercentOfWidth ==
    /\ op = "idle"
    /\ \E point \in ConvPoints : \E w \in PageWidths :
          /\ op' = "percent_of_width"
          /\ args' = [point |-> point, page_width_pt |-> w]
          /\ result' = percent_of_width(point, w)
    /\ UNCHANGED <<pc, queue, ran, batch>>

\* JobRunner(jobs, config=config).run() is called
RunnerRun ==
    /\ op = "idle"
    /\ \E jobs \in JobLists : \E cfg \in {c \in Configs : RunnerConfigValid(c)} :
          /\ op' = "run"
          /\ args' = [jobs |-> jobs, config |-> cfg]
          /\ IF jobs = <<>>
                THEN pc' = "done" /\ result' = Report(<<>>)
                ELSE /\ pc' = IF Concurrent(cfg) THEN "concurrent" ELSE "serial"
                     /\ result' = ReturnedNone
    /\ idx' = 1
    /\ UNCHANGED <<queue, ran, results, pending, calls, executed, stop_scheduling>>

\* what running job i does to the renderer's calls and to the executed jobs
JobRan(i) ==
    /\ executed' = Append(executed, i)
    /\ calls' = IF RendererCalled(args.jobs[i])
                   THEN Append(calls, args.jobs[i].output_path) ELSE calls

\* one iteration of the loop of _run_serial, given the result of the job
SerialIteration(last) ==
    /\ results' = Append(results, last)
    /\ JobRan(idx)
    /\ idx' = idx + 1
    /\ IF HaltAfter(args.config.halt_on_error, last) \/ idx = Len(args.jobs)
          THEN pc' = "done" /\ result' = Report(Append(results, last))
          ELSE pc' = "serial" /\ result' = result
    /\ UNCHANGED <<op, args, queue, ran, pending, stop_scheduling>>

\* _run_serial runs the next job
SerialStep ==
    /\ op = "run" /\ pc = "serial" /\ idx <= Len(args.jobs)
    /\ SerialIteration(ExecuteJob(args.jobs[idx], idx))

\* _run_concurrent submits the next job
Submit ==
    /\ op = "run" /\ pc = "concurrent" /\ idx <= Len(args.jobs) /\ ~stop_scheduling
    /\ pending' = Append(pending, [index |-> idx, done |-> FALSE,
                                   result |-> JobFailed(args.jobs[idx], idx, "")])
    /\ idx' = idx + 1
    /\ pc' = IF Len(pending) + 1 >= args.config.chunk_size THEN "collect" ELSE "concurrent"
    /\ UNCHANGED <<op, args, result, queue, ran, results, calls, executed, stop_scheduling>>

\* a thread of the pool runs a submitted job
Work ==
    /\ op = "run" /\ pc \in {"concurrent", "collect"}
    /\ \E i \in DOMAIN pending :
          /\ ~pending[i].done
          /\ Cardinality({j \in 1..(i - 1) : ~pending[j].done}) < args.config.max_workers.val
          /\ pending' = [pending EXCEPT ![i] =
                            [index |-> pending[i].index, done |-> TRUE,
                             result |-> ExecuteJob(args.jobs[pending[i].index], pending[i].index)]]
          /\ JobRan(pending[i].index)
    /\ UNCHANGED <<op, args, result, pc, queue, ran, results, idx, stop_scheduling>>

\* the chunk is full: _collect_futures, then the halt_on_error check
Collect ==
    /\ op = "run" /\ pc = "collect"
    /\ \A i \in DOMAIN pending : pending[i].done
    /\ results' = results \o CollectFutures(pending)
    /\ pending' = <<>>
    /\ stop_scheduling' =
          (stop_scheduling \/ StopScheduling(args.config.halt_on_error, CollectFutures(pending)))
    /\ pc' = "concurrent"
    /\ UNCHANGED <<op, args, result, queue, ran, calls, executed, idx>>

\* the loop of _run_concurrent is over: the last futures are collected
Drain ==
    /\ op = "run" /\ pc = "concurrent"
    /\ idx > Len(args.jobs) \/ stop_scheduling
    /\ \A i \in DOMAIN pending : pending[i].done
    /\ results' = results \o CollectFutures(pending)
    /\ pending' = <<>>
    /\ pc' = "done"
    /\ result' = Report(results \o CollectFutures(pending))
    /\ UNCHANGED <<op, args, queue, ran, calls, executed, idx, stop_scheduling>>

\* a call of pdf_extract._cluster_rows
ClusterVector ==
    /\ op = "idle"
    /\ \E rectangles \in CandidateLists :
          /\ op' = "pdf_extract._cluster_rows"
          /\ args' = [rectangles |-> rectangles]
          /\ result' = Clustered(VectorClusterRows(rectangles))
    /\ UNCHANGED <<pc, queue, ran, batch>>

\* a call of image_extract._cluster_rows
ClusterRaster ==
    /\ op = "idle"
    /\ \E rectangles \in CandidateLists :
          /\ op' = "image_extract._cluster_rows"
          /\ args' = [rectangles |-> rectangles]
          /\ result' = Clustered(RasterClusterRows(rectangles))
    /\ UNCHANGED <<pc, queue, ran, batch>>

\* pdf_extract.extract_template from `if not rectangles` on
InferVector ==
    /\ op = "idle"
    /\ \E rectangles \in InferredLists :
          /\ op' = "pdf_extract.grid"
          /\ args' = [rectangles |-> rectangles]
          /\ result' = VectorRectangles(InferredPage, rectangles)
    /\ UNCHANGED <<pc, queue, ran, batch>>

\* image_extract.extract_template from `if not rectangles` on
InferRaster ==
    /\ op = "idle"
    /\ \E rectangles \in InferredLists :
          /\ op' = "image_extract.grid"
          /\ args' = [rectangles |-> rectangles]
          /\ result' = RasterRectangles(InferredRaster, 72, rectangles)
    /\ UNCHANGED <<pc, queue, ran, batch>>

\* a call of image_extract._connected_components
LabelComponents ==
    /\ op = "idle"
    /\ \E mask \in Masks :
          /\ op' = "_connected_components"
          /\ args' = [mask |-> mask]
          /\ result' = Labelled(mask)
    /\ UNCHANGED <<pc, queue, ran, batch>>

\* a call of image_extract._refine_boxes
RefineBoxesCall ==
    /\ op = "idle"
    /\ \E n \in 1..MaxSide : \E xs \in GradientValues(n) : \E ys \in GradientValues(n) :
          /\ op' = "_refine_boxes"
          /\ args' = [boxes |-> BoxesOfSide(n), grad_x |-> LastRowArray(xs),
                      grad_y |-> LastColumnArray(ys)]
          /\ result' = Refined(RefineBoxes(BoxesOfSide(n), LastRowArray(xs),
                                           LastColumnArray(ys)))
    /\ UNCHANGED <<pc, queue, ran, batch>>

\* a call of image_extract._filter_boxes
FilterBoxesCall ==
    /\ op = "idle"
    /\ \E rectangles \in BoxLists :
          /\ op' = "_filter_boxes"
          /\ args' = [rectangles |-> rectangles]
          /\ result' = Kept(FilterBoxes(rectangles))
    /\ UNCHANGED <<pc, queue, ran, batch>>

Next ==
    \/ Synthesize
    \/ ExtractVector
    \/ ExtractRaster
    \/ LoadTemplate
    \/ TopCall
    \/ TopAttempt
    \/ TopReturnNone
    \/ PointsToInches
    \/ PointsToMm
    \/ InchesToPoints
    \/ MmToPoints
    \/ PercentOfWidth
    \/ RunnerRun
    \/ SerialStep
    \/ Submit
    \/ Work
    \/ Collect
    \/ Drain
    \/ ClusterVector
    \/ ClusterRaster
    \/ InferVector
    \/ InferRaster
    \/ LabelComponents
    \/ RefineBoxesCall
    \/ FilterBoxesCall

Spec == Init /\ [][Next]_vars

-----------------------------------------------------------------------------
(* Properties of the templates and of the detectors *)

\* centres non-decreasing in (y, then x)
RowMajor(centres) ==
    \A i \in 1..(Len(centres) - 1) :
        ~KeyLt(<<centres[i + 1][2], centres[i + 1][1]>>, <<centres[i][2], centres[i][1]>>)

\* C1: every template constructed (by the vector detector, the raster
\* detector, synthesize_circles or the JSON loader) has a non-empty centers_pt
\* that is non-decreasing in (y, then x), whatever the order of the centres
\* passed in; an empty centre sequence raises ValueError and yields no template.
C1_CentresRowMajor ==
    /\ result.status = "template" =>
            /\ result.template.centers_pt # <<>>
            /\ RowMajor(result.template.centers_pt)
    /\ (op = "load_template" /\ args.payload.centers = <<>>) => result = Raised("ValueError")

\* the loader has built a template from centres listed out of order
C1_Witness ==
    /\ op = "load_template" /\ result.status = "template"
    /\ Len(args.payload.centers) >= 2
    /\ ~RowMajor(args.payload.centers)

\* C2: in every template of the vector detector, the raster detector or
\* synthesize_circles the number of centres is sum(columns_per_row) when
\* columns_per_row is present and rows * columns when it is absent.
C2_CentreCountMatchesGrid ==
    (op \in {"pdf_extract", "image_extract", "synthesize_circles"} /\ result.status = "template") =>
        LET grid == result.template.grid
        IN  IF grid.columns_per_row.some
            THEN Len(result.template.centers_pt) = SumSeq(grid.columns_per_row.val)
            ELSE Len(result.template.centers_pt) = grid.rows * grid.columns

\* the page the call reads exists
PageRead == args.file.exists /\ 0 <= args.page /\ args.page < Len(args.file.pages)

Uniform(row_counts) == \A i \in DOMAIN row_counts : row_counts[i] = row_counts[1]

\* C3: when every label of an R x C grid is drawn twice at the same place,
\* the vector detector returns a template with rows = R, columns = C and
\* R * C centres, and does not raise.
C3_DuplicateDrawings ==
    (/\ op = "pdf_extract" /\ PageRead
     /\ args.file.pages[args.page + 1].twice
     /\ Uniform(args.file.pages[args.page + 1].row_counts)) =>
        LET row_counts == args.file.pages[args.page + 1].row_counts
        IN  /\ result.status = "template"
            /\ result.template.grid.rows = Len(row_counts)
            /\ result.template.grid.columns = row_counts[1]
            /\ Len(result.template.centers_pt) = Len(row_counts) * row_counts[1]

\* every pixel of the buffer has the same value
Blank(gray) ==
    /\ gray # <<>>
    /\ \A r \in DOMAIN gray : \A c \in DOMAIN gray[r] : gray[r][c] = gray[1][1]

\* C4: the vector detector returns None for a page without drawings, and the
\* raster detector returns None for an all-blank pixel buffer of any size.
C4_EmptyInputIsNone ==
    /\ (op = "pdf_extract" /\ PageRead /\ args.file.pages[args.page + 1].drawings = <<>>)
            => result = ReturnedNone
    /\ (op = "image_extract" /\ PageRead /\ args.dpi > 0
            /\ Blank(args.file.pages[args.page + 1].gray))
            => result = ReturnedNone

\* C5: the top-level extract_template runs the backends in the order of
\* prefer_vector (vector first when it is set, raster first when it is not),
\* runs the second only if the first produced no template, returns the
\* template of the first backend that produced one, and returns None only
\* when both backends produced none.
C5_BackendOrder ==
    op = "extract_template" =>
        /\ Len(ran) <= 2
        /\ \A i \in DOMAIN ran :
              /\ ran[i].mode = (IF args.prefer_vector THEN <<"vector", "raster">>
                                ELSE <<"raster", "vector">>)[i]
              /\ (i < Len(ran) => ran[i].outcome.status # "template")
        /\ (pc = "done" /\ result.status = "template") =>
              /\ ran # <<>>
              /\ result = ran[Len(ran)].outcome
        /\ (pc = "done" /\ result.status = "none") =>
              /\ Len(ran) = 2
              /\ \A i \in DOMAIN ran : ran[i].outcome.status # "template"

\* raster was preferred, produced nothing, and the vector template was returned
C5_Witness ==
    /\ op = "extract_template" /\ pc = "done" /\ ~args.prefer_vector
    /\ Len(ran) = 2
    /\ ran[1].mode = "raster" /\ ran[1].outcome.status = "none"
    /\ ran[2].mode = "vector" /\ result.status = "template"

\* C6: the top-level extract_template ends in an error, for both values of
\* prefer_vector, when the file is missing (FileNotFoundError), the page index
\* is out of range (IndexError) or dpi <= 0 (ValueError); dpi <= 0 is
\* rejected before any backend is tried.
C6_FatalErrors ==
    (op = "extract_template" /\ pc = "done") =>
        /\ args.dpi <= 0 => (result = Raised("ValueError") /\ ran = <<>>)
        /\ (args.dpi > 0 /\ ~args.file.exists) => result = Raised("FileNotFoundError")
        /\ (args.dpi > 0 /\ args.file.exists
                /\ (args.page < 0 \/ args.page >= Len(args.file.pages)))
              => result = Raised("IndexError")

\* dpi <= 0 was rejected for a page the vector backend has a template for
C6_Witness ==
    /\ op = "extract_template" /\ pc = "done"
    /\ args.dpi <= 0 /\ args.prefer_vector /\ PageRead
    /\ args.file.pages[args.page + 1].row_counts = <<2, 1>>
    /\ result = Raised("ValueError")

-----------------------------------------------------------------------------
(* Properties of the synthesizer *)

Synthesized == op = "synthesize_circles" /\ result.status = "template"

\* The arguments of the model's calls are integers.
IntOf(x) == x[1]

\* C7: in every template returned by synthesize_circles with at least two
\* centres, any two centres are at least diameter + gap apart.
C7_MinPairwiseDistance ==
    Synthesized =>
        LET centres == result.template.centers_pt
            pitch == NAdd(args.diameter_pt, args.gap_pt)
        IN  \A i \in DOMAIN centres : \A j \in (i + 1)..Len(centres) :
                NLe(Square(pitch), DistSq(centres[i], centres[j]))

\* a close-packed template with a gap, two rows and two columns
C7_Witness ==
    /\ Synthesized
    /\ args.layout = "close" /\ NSign(args.gap_pt) > 0
    /\ result.template.grid.rows >= 2 /\ result.template.grid.columns >= 2

\* C8: every centre of a template returned by synthesize_circles keeps the
\* circle inside the margins:
\*   left + radius <= x <= page_width - right - radius and
\*   top + radius <= y <= page_height - bottom - radius.
C8_CentresWithinBounds ==
    Synthesized =>
        LET centres == result.template.centers_pt
            radius == NOver(args.diameter_pt, 2)
            top == args.margin_pt[1]
            right == args.margin_pt[2]
            bottom == args.margin_pt[3]
            left == args.margin_pt[4]
        IN  \A i \in DOMAIN centres :
                /\ NLe(NAdd(left, radius), centres[i][1])
                /\ NLe(centres[i][1], NSub(NSub(args.page_w_pt, right), radius))
                /\ NLe(NAdd(top, radius), centres[i][2])
                /\ NLe(centres[i][2], NSub(NSub(args.page_h_pt, bottom), radius))

\* a template on a page whose left margin differs from its right margin
C8_Witness ==
    /\ Synthesized
    /\ args.margin_pt[4] # args.margin_pt[2]
    /\ Len(result.template.centers_pt) >= 2

\* C9: in the simple layout without caps, columns =
\* floor((usable_width - diameter) / pitch) + 1, rows likewise from the usable
\* height, and there are rows * columns centres; US Letter with diameter 36,
\* gap 12 and margins 36 gives 11 columns, 15 rows and 165 centres.
C9_SquareGridCount ==
    (Synthesized /\ args.layout = "simple" /\ ~args.max_cols.some /\ ~args.max_rows.some) =>
        LET pitch == IntOf(args.diameter_pt) + IntOf(args.gap_pt)
            usable_w == IntOf(args.page_w_pt) - IntOf(args.margin_pt[2]) - IntOf(args.margin_pt[4])
            usable_h == IntOf(args.page_h_pt) - IntOf(args.margin_pt[1]) - IntOf(args.margin_pt[3])
            columns == (usable_w - IntOf(args.diameter_pt)) \div pitch + 1
            rows == (usable_h - IntOf(args.diameter_pt)) \div pitch + 1
        IN  /\ result.template.grid.columns = columns
            /\ result.template.grid.rows = rows
            /\ Len(result.template.centers_pt) = rows * columns
            /\ (args = SynthArgs("simple", 612, 792, 36, <<36, 36, 36, 36>>, 12, None, None) =>
                    columns = 11 /\ rows = 15 /\ Len(result.template.centers_pt) = 165)

\* the US Letter example has been synthesized
C9_Witness ==
    /\ Synthesized
    /\ args = SynthArgs("simple", 612, 792, 36, <<36, 36, 36, 36>>, 12, None, None)
    /\ Len(result.template.centers_pt) = 165

\* C10: in a close-packed template row_offsets_pt has one entry per row and,
\* when there is more than one row, the second row is offset by pitch_x / 2:
\* row_offsets_pt[1] (0-based) is pitch_x / 2 and the first centre of the
\* second row lies at left + radius + pitch_x / 2.
C10_OddRowsOffset ==
    (Synthesized /\ Lower(args.layout) = "close") =>
        LET grid == result.template.grid
            half_pitch == NOver(NAdd(args.diameter_pt, args.gap_pt), 2)
            radius == NOver(args.diameter_pt, 2)
            first_row == IF grid.columns_per_row.some THEN grid.columns_per_row.val[1]
                         ELSE grid.columns
        IN  /\ Len(grid.row_offsets_pt) = grid.rows
            /\ (grid.rows > 1 =>
                    /\ grid.row_offsets_pt[2] = half_pitch
                    /\ result.template.centers_pt[first_row + 1][1] =
                           NAdd(NAdd(args.margin_pt[4], radius), half_pitch))

\* arguments the claim says are rejected; the model's arguments are integers
SynthRejected(a) ==
    \/ Lower(a.layout) \notin {"simple", "close"}
    \/ IntOf(a.diameter_pt) <= 0
    \/ IntOf(a.page_w_pt) <= 0 \/ IntOf(a.page_h_pt) <= 0
    \/ IntOf(a.gap_pt) < 0
    \/ \E i \in DOMAIN a.margin_pt : IntOf(a.margin_pt[i]) < 0
    \/ (a.max_cols.some /\ a.max_cols.val <= 0)
    \/ (a.max_rows.some /\ a.max_rows.val <= 0)
    \/ /\ Len(a.margin_pt) = 4
       /\ \/ IntOf(a.page_w_pt) - IntOf(a.margin_pt[2]) - IntOf(a.margin_pt[4])
                < IntOf(a.diameter_pt)
          \/ IntOf(a.page_h_pt) - IntOf(a.margin_pt[1]) - IntOf(a.margin_pt[3])
                < IntOf(a.diameter_pt)

\* C11: synthesize_circles raises ValueError and returns no template when the
\* usable span is smaller than the diameter on either axis, when diameter,
\* page width or page height is not positive, when the gap or a margin is
\* negative, when max_cols or max_rows is given and not positive, when the
\* layout is neither simple nor close, or when there would be no centres.
C11_InvalidConfiguration ==
    op = "synthesize_circles" =>
        /\ SynthRejected(args) => result = Raised("ValueError")
        /\ result.status = "template" => result.template.centers_pt # <<>>
        /\ result.status # "none"

\* a call with a negative margin, and one whose page is too low for the circle
C11_Witness ==
    /\ op = "synthesize_circles" /\ result = Raised("ValueError")
    /\ Len(args.margin_pt) = 4
    /\ \/ \E i \in DOMAIN args.margin_pt : IntOf(args.margin_pt[i]) < 0
       \/ /\ IntOf(args.page_h_pt) - IntOf(args.margin_pt[1]) - IntOf(args.margin_pt[3])
                < IntOf(args.diameter_pt)
          /\ IntOf(args.page_w_pt) - IntOf(args.margin_pt[2]) - IntOf(args.margin_pt[4])
                >= IntOf(args.diameter_pt)

\* the length of every row of a grid
RowLengths(grid) ==
    IF grid.columns_per_row.some THEN grid.columns_per_row.val
    ELSE Tup([i \in 1..grid.rows |-> grid.columns], grid.rows)

\* the call without its caps
Uncapped(a) == [a EXCEPT !.max_cols = None, !.max_rows = None]

\* the rows of the capped grid against the rows of the uncapped one
CapsRespected(capped, uncapped, max_cols, max_rows) ==
    /\ Len(capped) = IF max_rows.some THEN Min(max_rows.val, Len(uncapped)) ELSE Len(uncapped)
    /\ \A i \in DOMAIN capped :
          capped[i] = IF max_cols.some THEN Min(max_cols.val, uncapped[i]) ELSE uncapped[i]

\* C12: when max_cols and/or max_rows are given, every row of the result has
\* min(max_cols, uncapped column count) centres, the number of rows is
\* min(max_rows, uncapped row count), grid.columns never exceeds max_cols and
\* grid.rows never exceeds max_rows.
C12_CapsRespected ==
    (Synthesized /\ (args.max_cols.some \/ args.max_rows.some)) =>
        /\ SynthesizeCircles(Uncapped(args)).status = "template"
        /\ CapsRespected(RowLengths(result.template.grid),
                         RowLengths(SynthesizeCircles(Uncapped(args)).template.grid),
                         args.max_cols, args.max_rows)
        /\ args.max_cols.some => result.template.grid.columns <= args.max_cols.val
        /\ args.max_rows.some => result.template.grid.rows <= args.max_rows.val
        /\ Len(result.template.centers_pt) = SumSeq(RowLengths(result.template.grid))

\* both caps were given and both cut the lattice
C12_Witness ==
    /\ Synthesized /\ args.max_cols.some /\ args.max_rows.some
    /\ result.template.grid.columns = args.max_cols.val
    /\ result.template.grid.rows = args.max_rows.val
    /\ SynthesizeCircles(Uncapped(args)).template.grid.columns > args.max_cols.val
    /\ SynthesizeCircles(Uncapped(args)).template.grid.rows > args.max_rows.val

-----------------------------------------------------------------------------
(* Properties of the grid and of the anchors *)

Detected == op \in {"pdf_extract", "image_extract"} /\ result.status = "template"

\* C13: in every template of the vector detector, the raster detector or
\* synthesize_circles, anchors.top_left_pt is the first element of centers_pt
\* and anchors.bottom_left_pt is the element of centers_pt at index
\* len(centers_pt) minus the size of the last row (0-based).
C13_AnchorsAreCentres ==
    (Detected \/ Synthesized) =>
        /\ result.template.anchors.top_left_pt = result.template.centers_pt[1]
        /\ Len(result.template.centers_pt) >=
                RowLengths(result.template.grid)[result.template.grid.rows]
        /\ result.template.anchors.bottom_left_pt =
                result.template.centers_pt[
                    Len(result.template.centers_pt)
                    - RowLengths(result.template.grid)[result.template.grid.rows] + 1]

\* the page a detector call has read
PageOfCall == args.file.pages[args.page + 1]

\* a vector call on a page on which a grid was drawn, each label once
GridRead == op = "pdf_extract" /\ PageRead /\ PageOfCall.row_counts # <<>> /\ ~PageOfCall.twice

\* the number of centres at every height at which there is a centre
SizesByY(centres) ==
    {Cardinality({i \in DOMAIN centres : centres[i][2] = centres[k][2]}) : k \in DOMAIN centres}

HeightsOf(centres) == {centres[k][2] : k \in DOMAIN centres}

\* C14: in every template of the vector detector, the raster detector or
\* synthesize_circles, grid.rows is the number of rows, grid.columns is the
\* longest row's length, and grid.columns_per_row is present exactly when the
\* rows differ in length, with one entry per row.  The rows are those drawn
\* on the page (vector) and the centres of equal height (raster, synthesizer).
C14_GridShape ==
    /\ (GridRead /\ result.status = "template") =>
          /\ result.template.grid.rows = Len(PageOfCall.row_counts)
          /\ result.template.grid.columns = MaxOf(PageOfCall.row_counts)
          /\ result.template.grid.columns_per_row.some <=> ~Uniform(PageOfCall.row_counts)
    /\ ((op = "image_extract" /\ result.status = "template") \/ Synthesized) =>
          /\ result.template.grid.rows = Cardinality(HeightsOf(result.template.centers_pt))
          /\ result.template.grid.columns = MaxSet(SizesByY(result.template.centers_pt))
          /\ result.template.grid.columns_per_row.some <=>
                Cardinality(SizesByY(result.template.centers_pt)) > 1
    /\ ((Detected \/ Synthesized) /\ result.template.grid.columns_per_row.some) =>
          Len(result.template.grid.columns_per_row.val) = result.template.grid.rows

\* C15: a template of the vector detector has grid.columns_per_row equal to
\* the tuple of the rows' rectangle counts from top to bottom, for uniform
\* grids ((columns,) * rows) and for ragged grids (such as (4, 3, 4)).
C15_VectorColumnsPerRow ==
    (GridRead /\ result.status = "template") =>
        result.template.grid.columns_per_row = Some(PageOfCall.row_counts)

\* metadata["extraction"] of a template is the given backend
ExtractionIs(template, mode) ==
    /\ "extraction" \in DOMAIN template.metadata
    /\ template.metadata.extraction = mode

\* C16: every returned template names the backend that produced it:
\* metadata["extraction"] is "vector" for a template of the vector detector
\* and "raster" for one of the raster detector, also when it is returned
\* through the top-level extract_template.
C16_ExtractionMetadata ==
    /\ (op = "pdf_extract" /\ result.status = "template") =>
            ExtractionIs(result.template, "vector")
    /\ (op = "image_extract" /\ result.status = "template") =>
            ExtractionIs(result.template, "raster")
    /\ (op = "extract_template" /\ pc = "done" /\ result.status = "template") =>
            ExtractionIs(result.template, ran[Len(ran)].mode)

-----------------------------------------------------------------------------
(* Properties of the unit conversions *)

\* C17: the unit conversions are linear scalings that round-trip:
\* inches_to_points(points_to_inches(v)) = v and
\* mm_to_points(points_to_mm(v)) = v for every number or point v; a point
\* scaled by 100 / page_width and back by page_width / 100 is recovered for
\* every positive page width; percent_of_width raises ValueError for a page
\* width that is not positive.
C17_UnitRoundTrip ==
    /\ op = "points_to_inches" =>
          /\ inches_to_points(result.value) = args.value
          /\ result.value = (IF IsPoint(args.value)
                                THEN <<NOver(args.value[1], 72), NOver(args.value[2], 72)>>
                                ELSE NOver(args.value, 72))
    /\ op = "points_to_mm" => mm_to_points(result.value) = args.value
    /\ op = "inches_to_points" => points_to_inches(result.value) = args.value
    /\ op = "mm_to_points" => points_to_mm(result.value) = args.value
    /\ op = "percent_of_width" =>
          IF NSign(args.page_width_pt) > 0
          THEN /\ result.status = "value"
               /\ ConvertPoint(result.value, "percent_width", args.page_width_pt) = args.point
          ELSE result = Raised("ValueError")

\* a point with a fractional coordinate went to millimetres, and a point went
\* to percent of a fractional page width
C17_Witness ==
    \/ /\ op = "points_to_mm" /\ IsPoint(args.value)
       /\ args.value[2] = Rat(5, 3) /\ result.value # args.value
    \/ /\ op = "percent_of_width" /\ result.status = "value"
       /\ args.page_width_pt = Rat(2, 3) /\ result.value # args.point

-----------------------------------------------------------------------------
(* Properties of the job runner *)

\* a serial run with halt_on_error
SerialHalting == op = "run" /\ ~Concurrent(args.config) /\ args.config.halt_on_error

\* C18: with halt_on_error and serial execution, JobRunner.run executes the
\* jobs in list order and stops after the first failed job: no later job is
\* executed, and the report holds exactly the results of the jobs up to and
\* including the first failure.
C18_HaltOnError ==
    SerialHalting =>
        /\ Len(executed) = Len(results)
        /\ \A i \in DOMAIN executed : executed[i] = i
        /\ \A i \in DOMAIN results : results[i].definition = args.jobs[i]
        /\ \A i \in 1..(Len(results) - 1) : results[i].success
        /\ pc = "done" =>
              /\ result = Report(results)
              /\ Len(results) = Len(args.jobs) \/ ~results[Len(results)].success

\* the first of several jobs failed and the run ended with its result alone
C18_Witness ==
    /\ SerialHalting /\ pc = "done"
    /\ Len(args.jobs) >= 2
    /\ executed = <<1>>
    /\ Len(results) = 1 /\ ~results[1].success

\* the exception the try block of _execute_job ends in for a job: that of the
\* template loader, or that of the renderer; "" when there is none
ExceptionOf(job, template) ==
    IF template.status # "template" THEN template.error
    ELSE IF job.render # "ok" THEN job.render
    ELSE ""

\* C19: JobRunner.run never raises because a job failed; every executed job
\* contributes exactly one JobResult, in job order; the renderer is invoked
\* once per executed job; a job is reported success = True exactly when its
\* rendering raised no exception, and a failed job has error equal to the
\* exception's message and metadata carrying its 1-based index and its
\* name; the summary's total is succeeded + failed.
C19_JobResults ==
    op = "run" =>
        /\ result.status # "error"
        /\ \A i \in DOMAIN results :
              /\ results[i].definition = args.jobs[i]
              /\ results[i].success <=>
                    ExceptionOf(args.jobs[i], LoadTemplateFromJson(args.jobs[i].template)) = ""
              /\ ~results[i].success =>
                    /\ results[i].error =
                          ExceptionOf(args.jobs[i], LoadTemplateFromJson(args.jobs[i].template))
                    /\ results[i].metadata.index = i
                    /\ results[i].metadata.name = DisplayName(args.jobs[i])
                    /\ results[i].metadata.error = results[i].error
        /\ Summary(results).total = Summary(results).succeeded + Summary(results).failed
        /\ pc = "done" =>
              /\ result = Report(results)
              /\ Len(executed) = Len(results)
              /\ \A i \in DOMAIN results : \E k \in DOMAIN executed : executed[k] = i
              /\ Len(calls) = Len(executed)

-----------------------------------------------------------------------------
(* Properties of the row clustering *)

RowsClustered == op \in {"pdf_extract._cluster_rows", "image_extract._cluster_rows"}

\* how often x occurs in the sequence s
Occurrences(s, x) == Cardinality({i \in DOMAIN s : s[i] = x})

\* the centre ys of a row in ascending order
AscendingYs(row) == SortedBy(CenterYs(row), [i \in DOMAIN row |-> <<row[i].center[2]>>])

\* the row_tolerance the claim states for each detector
StatedTolerance(detector, rectangles) ==
    IF detector = "pdf_extract._cluster_rows"
        THEN NMax(NOver(Median(Heights(rectangles)), 4), Rat(1, 2))
    ELSE NMax(NOver(NTimes(Median(Heights(rectangles)), 3), 10), Rat(3, 4))

\* the rows are what the greedy pass over the candidates by ascending y
\* leaves: a candidate joined its row when it was within the tolerance of the
\* mean of the members before it, and started a row when it was not within
\* the tolerance of the mean of any row made before
GreedyRows(rows, row_tolerance) ==
    \A i \in DOMAIN rows :
        /\ rows[i] # <<>>
        /\ \A k \in 2..Len(rows[i]) :
              NLe(NAbs(NSub(AscendingYs(rows[i])[k],
                            Mean(SubSeq(AscendingYs(rows[i]), 1, k - 1)))),
                  row_tolerance)
        /\ \A j \in 1..(i - 1) :
              /\ NLt(row_tolerance,
                     NAbs(NSub(AscendingYs(rows[i])[1], Mean(CenterYs(rows[j])))))
              /\ NLe(AscendingYs(rows[j])[Len(rows[j])], AscendingYs(rows[i])[1])

\* C20: row clustering is one greedy pass over the candidates sorted by
\* vertical centre: a candidate joins the earliest-made row whose running mean
\* y is within row_tolerance of its y and otherwise starts a row, with
\* row_tolerance = max(0.25 * median_height, 0.5) in the vector detector and
\* max(0.3 * median_height, 0.75) in the raster detector; the rows partition
\* the candidates, none lost and none duplicated.
C20_GreedyRowClustering ==
    RowsClustered =>
        /\ Len(FlattenRows(result.rows)) = Len(args.rectangles)
        /\ \A i \in DOMAIN args.rectangles :
              Occurrences(FlattenRows(result.rows), args.rectangles[i])
                  = Occurrences(args.rectangles, args.rectangles[i])
        /\ GreedyRows(result.rows, StatedTolerance(op, args.rectangles))

\* three candidates in two rows, one row holding candidates of different y
C20_Witness ==
    /\ op = "pdf_extract._cluster_rows"
    /\ Len(args.rectangles) = 3
    /\ Len(result.rows) = 2
    /\ \E i \in DOMAIN result.rows :
          /\ Len(result.rows[i]) = 2
          /\ result.rows[i][1].center[2] # result.rows[i][2].center[2]

-----------------------------------------------------------------------------
(* Properties of grid inference *)

\* the candidates grid inference was given by the call of the state
CandidatesOfCall ==
    IF op = "pdf_extract" THEN DetectRectangles(PageOfCall.drawings) ELSE args.rectangles

\* the rows the candidates of the call cluster into
RowsOfCall ==
    IF op \in {"pdf_extract", "pdf_extract.grid"} THEN VectorClusterRows(CandidatesOfCall)
    ELSE RasterClusterRows(CandidatesOfCall)

\* grid inference ran and returned a template
Inferred ==
    /\ \/ op \in {"pdf_extract.grid", "image_extract.grid"}
       \/ op = "pdf_extract" /\ PageRead
    /\ result.status = "template"

\* C21: the centers_pt of a template returned by the vector or the raster
\* detector is the flattening of the clustered rows: the rows by ascending
\* mean y, the members of each row by ascending x, so the centres of a
\* clustered row are contiguous even when their ys differ within the tolerance.
C21_CentresAreFlattenedRows ==
    Inferred => result.template.centers_pt = Centers(FlattenRows(RowsOfCall))

\* v is the k-th smallest of values (k from 1)
IsKth(v, values, k) ==
    /\ Cardinality({i \in DOMAIN values : NLt(values[i], v)}) < k
    /\ k <= Cardinality({i \in DOMAIN values : NLe(values[i], v)})

\* m is the median of values: the middle one, or the mean of the two middle ones
IsMedianOf(m, values) ==
    \E i, j \in DOMAIN values :
        /\ IsKth(values[i], values, (Len(values) + 1) \div 2)
        /\ IsKth(values[j], values, Len(values) \div 2 + 1)
        /\ m = NOver(NAdd(values[i], values[j]), 2)

\* s[2] - s[1], s[3] - s[2], ...
ConsecutiveGaps(s) == [i \in 1..(Len(s) - 1) |-> NSub(s[i + 1], s[i])]

\* the gaps between the consecutive centre xs of every row, row after row
RECURSIVE GapsInRows(_)
GapsInRows(rows) ==
    IF rows = <<>> THEN <<>>
    ELSE ConsecutiveGaps(CenterXs(Head(rows))) \o GapsInRows(Tail(rows))

\* m is the median of values, or the fallback when there are no values
IsMedianOrFallback(m, values, fallback) ==
    IF values = <<>> THEN m = fallback ELSE IsMedianOf(m, values)

MediansOf(template, candidates, rows) ==
    /\ IsMedianOf(template.label.width_pt, Widths(candidates))
    /\ IsMedianOf(template.label.height_pt, Heights(candidates))
    /\ IsMedianOrFallback(template.grid.delta_y_pt,
                          ConsecutiveGaps([i \in DOMAIN rows |-> Mean(CenterYs(rows[i]))]),
                          template.label.height_pt)
    /\ IsMedianOrFallback(template.grid.delta_x_pt, GapsInRows(rows),
                          template.label.width_pt)

\* C22: the grid metrics are medians: the label width and height over all
\* candidates; delta_y_pt over the differences of consecutive row means, or
\* the label height when there is one row; delta_x_pt over the differences of
\* consecutive centres within the rows of two members or more, or the label
\* width when no row has two members.
C22_MetricsAreMedians ==
    Inferred => MediansOf(result.template, CandidatesOfCall, RowsOfCall)

\* three candidates of two widths in two rows, one of them of two members
C22_Witness ==
    /\ op = "pdf_extract.grid" /\ result.status = "template"
    /\ Len(args.rectangles) = 3
    /\ \E i, j \in DOMAIN args.rectangles : args.rectangles[i].width # args.rectangles[j].width
    /\ result.template.grid.rows = 2 /\ result.template.grid.columns = 2
    /\ result.template.grid.delta_x_pt = N(6)
    /\ result.template.grid.delta_y_pt # result.template.label.height_pt

\* C23: for every non-empty list of candidates of positive width and height,
\* grid inference in the vector and in the raster detector returns a complete
\* template with rows >= 1, columns >= 1, delta_x_pt > 0 and delta_y_pt > 0;
\* its only other outcome is no template, for an empty list; it never raises
\* an error, also not when two candidates of a row share their x centre.
C23_InferenceNeverRaises ==
    op \in {"pdf_extract.grid", "image_extract.grid"} =>
        IF args.rectangles = <<>> THEN result = ReturnedNone
        ELSE /\ result.status = "template"
             /\ result.template.grid.rows >= 1
             /\ result.template.grid.columns >= 1
             /\ NSign(result.template.grid.delta_x_pt) > 0
             /\ NSign(result.template.grid.delta_y_pt) > 0

-----------------------------------------------------------------------------
(* Properties of the top-level error handling *)

\* C24: a fatal error raised inside a backend (as the ValueError of the raster
\* backend for an empty image) aborts the top-level extract_template call and
\* reaches the caller: it is never turned into a None result or into a
\* fallback to the other backend.
C24_BackendErrorsPropagate ==
    op = "extract_template" =>
        \A i \in DOMAIN ran :
            ran[i].outcome.status = "error" =>
                /\ i = Len(ran)
                /\ pc = "done"
                /\ result = ran[i].outcome

-----------------------------------------------------------------------------
(* Properties of the raster pipeline *)

\* p and q are 4-neighbours
Adjacent(p, q) ==
    \/ p[1] = q[1] /\ (p[2] = q[2] + 1 \/ q[2] = p[2] + 1)
    \/ p[2] = q[2] /\ (p[1] = q[1] + 1 \/ q[1] = p[1] + 1)

\* the pixels of C reached from S over 4-neighbours within C
RECURSIVE ReachedFrom(_, _)
ReachedFurther(S, T, C) == IF T = S THEN S ELSE ReachedFrom(T, C)
ReachedFrom(S, C) ==
    ReachedFurther(S, Enum(S \cup {q \in C : \E p \in S : Adjacent(p, q)}), C)

\* C is one 4-connected component of the set pixels on
IsComponent(C, on) ==
    /\ C # {} /\ C \subseteq on
    /\ ReachedFrom({CHOOSE p \in C : TRUE}, C) = C
    /\ \A p \in C : \A q \in on \ C : ~Adjacent(p, q)

\* the exact bounding box of the pixels of C
IsBoundingBox(box, C) ==
    /\ \A p \in C : box[1] <= p[1] /\ p[1] <= box[3] /\ box[2] <= p[2] /\ p[2] <= box[4]
    /\ \E p \in C : p[1] = box[1]
    /\ \E p \in C : p[2] = box[2]
    /\ \E p \in C : p[1] = box[3]
    /\ \E p \in C : p[2] = box[4]

\* the indices of the visited groups of 16 pixels or more
LargeGroups(visited) == {i \in DOMAIN visited : Cardinality(visited[i]) >= 16}

ComponentsLabelled(on, boxes, visited) ==
    /\ \A p \in on : Cardinality({i \in DOMAIN visited : p \in visited[i]}) = 1
    /\ \A i \in DOMAIN visited : IsComponent(visited[i], on)
    /\ Len(boxes) = Cardinality(LargeGroups(visited))
    /\ \A i \in LargeGroups(visited) :
          IsBoundingBox(boxes[Cardinality({j \in LargeGroups(visited) : j <= i})], visited[i])

\* C25: _connected_components returns exactly one box per 4-connected
\* component of set pixels that has at least 16 pixels and none for a smaller
\* one; each box is the exact bounding box (min row, min col, max row, max col)
\* of its component; pixels that touch only diagonally are never merged; and
\* every set pixel is visited exactly once.
C25_ConnectedComponents ==
    op = "_connected_components" =>
        ComponentsLabelled(SetPixels(args.mask), result.boxes, result.visited)

\* a block of 15 pixels with a pixel touching it only diagonally gets no box,
\* the block of 16 pixels next to it gets one
C25_Witness ==
    /\ op = "_connected_components"
    /\ args.mask[1][1] = 0 /\ args.mask[5][5] = 1 /\ args.mask[5][4] = 0 /\ args.mask[5][6] = 0
    /\ args.mask[1][6] = 1
    /\ result.boxes = <<<<0, 5, 3, 8>>>>
    /\ Len(result.visited) = 3

\* the gradient array is 0 all over the box
ZeroInBox(grad, box) ==
    \A r \in box[1]..box[3] : \A c \in box[2]..box[4] : grad[r + 1][c + 1] = 0

\* the refined edges lo2..hi2 of the raw edges lo..hi: inside them, not
\* inverted, the first in the first half and the second in the second half
EdgesRefined(lo, hi, lo2, hi2) ==
    /\ lo <= lo2 /\ lo2 <= hi2 /\ hi2 <= hi
    /\ lo2 - lo <= (hi - lo + 1) \div 2
    /\ (hi - lo + 1) \div 2 <= hi2 - lo

BoxRefined(raw, refined, grad_x, grad_y) ==
    /\ EdgesRefined(raw[1], raw[3], refined[1], refined[3])
    /\ EdgesRefined(raw[2], raw[4], refined[2], refined[4])
    /\ (ZeroInBox(grad_x, raw) \/ ZeroInBox(grad_y, raw)) => refined = raw

\* C26: box refinement never grows or inverts a box: _refine_boxes returns
\* one box per input box, each with min_r <= min_r' <= max_r' <= max_r and
\* min_c <= min_c' <= max_c' <= max_c (the left and top edge from the first
\* half of the profile, the right and bottom edge from the second half), and
\* a box whose gradient profile is all zero is returned unchanged.
C26_RefinementShrinks ==
    op = "_refine_boxes" =>
        /\ Len(result.boxes) = Len(args.boxes)
        /\ \A i \in DOMAIN args.boxes :
              BoxRefined(args.boxes[i], result.boxes[i], args.grad_x, args.grad_y)

\* a box of three columns refined to its last column, and a box left unchanged
C26_Witness ==
    /\ op = "_refine_boxes"
    /\ Len(args.boxes) = 2
    /\ args.boxes[1] = <<0, 0, 2, 2>> /\ result.boxes[1][2] = 1 /\ result.boxes[1][4] = 2
    /\ result.boxes[1][1] = 0 /\ result.boxes[1][3] = 1
    /\ ZeroInBox(args.grad_y, args.boxes[2]) /\ ~ZeroInBox(args.grad_x, args.boxes[2])
    /\ result.boxes[2] = args.boxes[2]

\* 0.6 * median <= value <= 1.4 * median
Within40(value, median) ==
    /\ NLe(NTimes(median, 3), NTimes(value, 5))
    /\ NLe(NTimes(value, 5), NTimes(median, 7))

\* the indices of the rectangles whose width and height are within 40% of the medians
Qualifying(rectangles) ==
    {i \in DOMAIN rectangles :
        /\ Within40(rectangles[i].width, Median(Widths(rectangles)))
        /\ Within40(rectangles[i].height, Median(Heights(rectangles)))}

\* out holds the elements of s at the indices of keep, in the order of s
IsSublistAt(out, s, keep) ==
    /\ Len(out) = Cardinality(keep)
    /\ \A i \in keep : out[Cardinality({j \in keep : j <= i})] = s[i]

FilteredAsStated(given, kept) ==
    /\ IF given # <<>> /\ Qualifying(given) = {} THEN kept = given
       ELSE IsSublistAt(kept, given, Qualifying(given))
    /\ given # <<>> => kept # <<>>

\* C27: outlier filtering returns a sub-list of its input in the original
\* order: exactly the boxes whose width and height are both within 40% of the
\* respective medians (0.6 * median <= value <= 1.4 * median), or the whole
\* input when no box qualifies; the result is non-empty whenever the input is.
C27_OutlierFiltering ==
    op = "_filter_boxes" => FilteredAsStated(args.rectangles, result.rectangles)

\* of three boxes the second is dropped, the first and the third are kept
C27_Witness ==
    /\ op = "_filter_boxes"
    /\ Len(args.rectangles) = 3
    /\ result.rectangles = <<args.rectangles[1], args.rectangles[3]>>

-----------------------------------------------------------------------------
(* Properties of the concurrent job runner *)

ConcurrentRun == op = "run" /\ Concurrent(args.config)

\* the indices of the failed results
FailedIn(report) == {i \in DOMAIN report : ~report[i].success}

\* the last job of the chunk that job i is submitted in
ChunkEnd(i, chunk_size, jobs) ==
    Min(((i - 1) \div chunk_size + 1) * chunk_size, jobs)

\* C28: in concurrent mode (max_workers > 1) JobRunner never has more than
\* chunk_size jobs submitted and not yet collected; the results are reported
\* in the order the jobs were submitted; and with halt_on_error, once a
\* collected chunk holds a failed result no further job is submitted or
\* executed, while the jobs of the chunk of the failure still complete and are
\* reported.
C28_ConcurrentChunks ==
    ConcurrentRun =>
        /\ Len(pending) <= args.config.chunk_size
        /\ \A i \in DOMAIN results :
              results[i].definition = args.jobs[i] /\ results[i].metadata.index = i
        /\ \A k \in DOMAIN pending : pending[k].index = Len(results) + k
        /\ \A k \in DOMAIN executed : executed[k] <= Len(results) + Len(pending)
        /\ (args.config.halt_on_error /\ FailedIn(results) # {}) =>
              /\ pending = <<>>
              /\ Len(results) = ChunkEnd(CHOOSE i \in FailedIn(results) :
                                            \A j \in FailedIn(results) : i <= j,
                                         args.config.chunk_size, Len(args.jobs))
              /\ \A i \in DOMAIN results : \E k \in DOMAIN executed : executed[k] = i
        /\ pc = "done" =>
              /\ result = Report(results)
              /\ (~args.config.halt_on_error \/ FailedIn(results) = {}) =>
                    Len(results) = Len(args.jobs)

\* three jobs in chunks of two with halt_on_error: the second job ran before
\* the first, both are reported, the third was never submitted
C28_Witness ==
    /\ ConcurrentRun /\ pc = "done"
    /\ args.config.halt_on_error /\ args.config.chunk_size = 2
    /\ Len(args.jobs) = 3
    /\ executed = <<2, 1>>
    /\ Len(results) = 2 /\ ~results[1].success
    /\ stop_scheduling

-----------------------------------------------------------------------------
(* Properties of the determinism of grid inference *)

\* s with the elements at i and j exchanged
Exchanged(s, i, j) ==
    [k \in DOMAIN s |-> IF k = i THEN s[j] ELSE IF k = j THEN s[i] ELSE s[k]]

\* the rows as sets of candidates, in the order of the rows
RowSets(rows) == [i \in DOMAIN rows |-> {rows[i][j] : j \in DOMAIN rows[i]}]

\* C29: grid inference is deterministic and takes its input as an unordered
\* set: the vector detector's clustering and metrics on any permutation of
\* the same candidates give the same row partition, the same rows, columns,
\* delta_x, delta_y and label size, the same anchors and the same centers_pt.
\* (Every permutation is a product of exchanges of two candidates, and every
\* list of candidates is an input, so the exchanges are compared.)
C29_OrderIndependent ==
    op = "pdf_extract.grid" =>
        \A i, j \in DOMAIN args.rectangles :
            /\ VectorRectangles(InferredPage, Exchanged(args.rectangles, i, j)) = result
            /\ RowSets(VectorClusterRows(Exchanged(args.rectangles, i, j)))
                  = RowSets(VectorClusterRows(args.rectangles))

\* three candidates given out of order, two of them sharing their x, that
\* make a template of one row
C29_Witness ==
    /\ op = "pdf_extract.grid" /\ result.status = "template"
    /\ Len(args.rectangles) = 3
    /\ args.rectangles[1].center = <<N(2), N(4)>>
    /\ args.rectangles[2].center = <<N(2), N(3)>>
    /\ args.rectangles[3].center = <<N(8), N(3)>>
    /\ result.template.anchors.top_left_pt = <<N(2), N(3)>>

-----------------------------------------------------------------------------
(* Properties of the synthesizer's pitch *)

\* consecutive centres of one row are delta_x_pt apart, and the first centre
\* of a row is delta_y_pt below the row before
PitchMatches(centers, grid) ==
    \A k \in 1..(Len(centers) - 1) :
        IF centers[k + 1][2] = centers[k][2]
        THEN NSub(centers[k + 1][1], centers[k][1]) = grid.delta_x_pt
        ELSE NSub(centers[k + 1][2], centers[k][2]) = grid.delta_y_pt

\* C30: the pitch reported by synthesize_circles matches the generated
\* lattice: in every returned template consecutive centres within a row are
\* exactly grid.delta_x_pt = diameter + gap apart, and the y values of
\* consecutive rows differ by exactly grid.delta_y_pt, also in the close
\* layout on pages so narrow that the offset odd rows are skipped.
C30_PitchMatchesLattice ==
    Synthesized =>
        /\ result.template.grid.delta_x_pt = NAdd(args.diameter_pt, args.gap_pt)
        /\ PitchMatches(result.template.centers_pt, result.template.grid)

=============================================================================
